---------------------------- MODULE Spec2Model ----------------------------
(***************************************************************************)
(* A model of the CSME Huffman unpacker (decoder/csme_unpack.py):          *)
(*   - the page decoder decode_page_from_input_file_i, as a state machine  *)
(*     whose states are the positions of the function between its loops;   *)
(*   - the LUT reader read_lut, one step per 4-byte word;                  *)
(*   - the table loader process_huffman_table_file_line, one step per line.*)
(*   - the image scanner find_fpt and the readers get_all_cdt and          *)
(*     get_code_objects_in_code_partition (fpt_and_cdt_utilities.py), each  *)
(*     a function of the file's bytes applied in one step;                  *)
(*   - the driver main_run_for_packaged_compressed_file_input, one step per *)
(*     turn of its loops, with the page decoder's steps in between.         *)
(* Bytes are naturals 0..255, the input is a sequence of bytes, and a bit   *)
(* string (bitstring.BitArray) is a sequence over {0, 1}.                  *)
(***************************************************************************)
EXTENDS Integers, Sequences, FiniteSets, TLC

VARIABLES
    \* ---- module globals of csme_unpack.py
    huffman_table,                  \* dict: code bits -> HuffmanTableEntry
    longest_huffman_code_in_bits,
    shortest_huffman_code_in_bits,
    \* ---- arguments of decode_page_from_input_file_i
    inp_data,                       \* contents of the input stream
    inp_pos,                        \* cursor of the input stream
    lut_entry_for_page,             \* LUTentry: offset, dictionary_selector, size
    outp,                           \* contents of the output stream
    outp_pos,                       \* cursor of the output stream
    offset_into_output,
    topoff_factor,                  \* the factor in bitbuffer_topoff_level (10 as built)
    \* ---- locals of decode_page_from_input_file_i
    pc,
    read_position,
    write_position,
    matched,                        \* the Huffman codes matched by the call so far
    bitbuffer_topoff_level,
    end_page_position,
    in_data,
    valid_bits_in_bitbuffer,
    bitbuffer,
    result,                         \* the value returned
    \* ---- the caller's record of the calls made on the same page
    call,                           \* 1: first call, 2: the call repeated
    first_outp,                     \* output of the first call
    first_result,                   \* value returned by the first call
    first_matched,                  \* codes matched by the first call
    first_read_position,            \* bytes read by the first call
    \* ---- read_lut: arguments, locals and position
    lut_inp_data,                   \* contents of from_opened_input_file
    lut_inp_pos,                    \* its cursor
    reverse_byte_ordering,
    bytes_of_lut_to_read,
    position,
    entry_index,
    local_lut_return_value,
    lut_pc,                         \* "idle", "loop", "done" (returned), "raised"
    \* ---- process_huffman_table_file_line / clear_huffman_table_data: the calls made
    line,                           \* the line of the last call (a sequence of characters)
    line_outcome,                   \* "idle", "returned", "raised", "cleared"
    table_calls,                    \* how many calls were made
    \* ---- find_fpt and the loop of its caller
    scan_data,                      \* contents of the input file
    begin_at_offset_in_bytes,       \* argument of the next call
    found_position,                 \* what the last call returned: <<>> for None
    found_positions,                \* the caller's list of what the calls returned
    scan_pc,                        \* "idle", "call", "done", "raised"
    \* ---- get_all_cdt: arguments, the file handle, the value returned
    fpt_file,                       \* contents of from_opened_file
    fpt_file_pos,                   \* its cursor
    offset_of_fpt,
    code_partitions,                \* the value returned (None or a list)
    fpt_pc,                         \* "idle", "call", "done" (returned), "raised"
    \* ---- get_code_objects_in_code_partition and its Huffman-only wrapper
    cpd_file,                       \* contents of from_opened_file
    cpd_file_pos,                   \* its cursor
    code_partition_desc,
    code_objects,                   \* what get_code_objects_in_code_partition returned
    huffman_code_objects,           \* what the Huffman-only wrapper returned
    cpd_pc,                         \* "idle", "call", "listed", "done", "raised"
    \* ---- main_run_for_packaged_compressed_file_input: arguments and locals (its
    \*      file_input is inp_data with the cursor inp_pos, its open outp is outp)
    file_table_location,
    extract_only_objects_named,     \* <<>> for None, or the sequence of the names
    code_partition_descriptors,
    partition_index,                \* position of the loop over the partitions (from 0)
    code_object_entries,
    object_index,                   \* position of the loop over the code objects (from 0)
    code_object_lut,
    page_index,                     \* position of the loop over the LUT (from 0)
    code_object_position_start,
    output_write_position,
    decode_result,
    decoded_binaries_by_abs_offset, \* dict: position -> output path
    drv_pc,                         \* "idle", "start", "cdt", "partition", "object", "page",
                                    \* "decoding", "close", "returned", "raised"
    \* ---- what the run leaves behind, and the record of what it did
    output_files,                   \* the files written: output path -> contents
    aliases,                        \* the symlinks asked for: <<output path, target path>>
    page_log                        \* the calls of the page decoder made, in order

decVars == <<huffman_table, longest_huffman_code_in_bits, shortest_huffman_code_in_bits,
             inp_data, inp_pos, lut_entry_for_page, outp, outp_pos, offset_into_output,
             topoff_factor, pc, read_position,
             write_position, matched, bitbuffer_topoff_level, end_page_position, in_data,
             valid_bits_in_bitbuffer, bitbuffer, result, call, first_outp, first_result, first_matched, first_read_position>>

lutVars == <<lut_inp_data, lut_inp_pos, reverse_byte_ordering, bytes_of_lut_to_read,
             position, entry_index, local_lut_return_value, lut_pc>>

tblVars == <<line, line_outcome, table_calls>>

scanVars == <<scan_data, begin_at_offset_in_bytes, found_position, found_positions, scan_pc>>

\* everything but the page decoder's and the LUT reader's variables
fptVars == <<fpt_file, fpt_file_pos, offset_of_fpt, code_partitions, fpt_pc>>

cpdVars == <<cpd_file, cpd_file_pos, code_partition_desc, code_objects,
             huffman_code_objects, cpd_pc>>

drvVars == <<file_table_location, extract_only_objects_named, code_partition_descriptors,
             partition_index, code_object_entries, object_index, code_object_lut,
             page_index, code_object_position_start, output_write_position,
             decode_result, decoded_binaries_by_abs_offset, drv_pc,
             output_files, aliases, page_log>>

restVars == <<tblVars, scanVars, fptVars, cpdVars, drvVars>>

\* what a call of the table loader, and of the image scanner, leaves alone
othersOfTable == <<lutVars, scanVars, fptVars, cpdVars, drvVars>>
othersOfScan  == <<decVars, lutVars, tblVars, fptVars, cpdVars, drvVars>>
othersOfFpt   == <<decVars, lutVars, tblVars, scanVars, cpdVars, drvVars>>
othersOfCpd   == <<decVars, lutVars, tblVars, scanVars, fptVars, drvVars>>

vars == <<decVars, lutVars, restVars>>

-----------------------------------------------------------------------------
(* Bounds of the model *)

\* longest input stream, in bytes
MaxFileLen == 3
\* largest compressed_offset of the LUT entry handed to the page decoder
MaxOffset == 1
\* largest page_size of the LUT entry handed to the page decoder
MaxPageSize == 3
\* the repeated call refills to longest_huffman_code_in_bits * k, k in 1..MaxAltFactor
MaxAltFactor == 2
\* longest LUT, in 4-byte words
MaxLutWords == 3
\* calls of the table loader and of the clear in one run
MaxTableCalls == 3
\* pieces a scanned image is made of
MaxScanChunks == 3
\* entries of an FPT
MaxFptEntries == 2
\* entries of a code partition directory
MaxCpdEntries == 2
\* code objects of the first partition of an image the driver is run on
MaxDrvObjects == 2

-----------------------------------------------------------------------------
(* Program constants *)

HUFFMAN_PAGE_DECODED_SIZE_MAX == 4096

\* sys.maxsize; 2^31 - 1 here (2^63 - 1 on the 64-bit builds): only ever compared
\* with code lengths, which stay far below both
sys_maxsize == 2147483647

\* bitbuffer_topoff_level = longest_huffman_code_in_bits * 10
TOPOFF_FACTOR == 10

-----------------------------------------------------------------------------
(* Helpers: integers, bytes and bits *)

Min(a, b) == IF a < b THEN a ELSE b

RECURSIVE Pow2(_)
Pow2(n) == IF n = 0 THEN 1 ELSE 2 * Pow2(n - 1)

\* x & m for a mask m = 2^hi - 2^lo (bits lo..hi-1 of x, in place)
BitField(x, lo, hi) == ((x % Pow2(hi)) \div Pow2(lo)) * Pow2(lo)

\* bitstring.BitArray(bytes=b): the 8 bits of a byte, most significant first
BitsOfByte(b) == [i \in 1..8 |-> (b \div Pow2(8 - i)) % 2]

RECURSIVE BitsOfBytes(_)
BitsOfBytes(bs) ==
    IF bs = <<>> THEN <<>> ELSE BitsOfByte(Head(bs)) \o BitsOfBytes(Tail(bs))

\* stream.read(n) at cursor p of a stream holding the bytes data
StreamRead(data, p, n) ==
    IF p >= Len(data) \/ n <= 0 THEN <<>>
    ELSE SubSeq(data, p + 1, Min(Len(data), p + n))

-----------------------------------------------------------------------------
(* Byte strings that get long (the dictionary values, the output stream) are *)
(* held as runs: the sequence of <<byte, count>> with count >= 1 and no two  *)
(* neighbours of the same byte. Every byte string has exactly one such form, *)
(* so two of them are equal exactly when the byte strings are.               *)

\* len(bs)
RECURSIVE RunLen(_)
RunLen(r) == IF r = <<>> THEN 0 ELSE Head(r)[2] + RunLen(Tail(r))

\* n times the byte b
RunOf(b, n) == IF n <= 0 THEN <<>> ELSE << <<b, n>> >>

\* a + b
RunCat(a, b) ==
    IF a = <<>> THEN b
    ELSE IF b = <<>> THEN a
    ELSE IF a[Len(a)][1] = Head(b)[1]
         THEN SubSeq(a, 1, Len(a) - 1)
                \o << <<Head(b)[1], a[Len(a)][2] + Head(b)[2]>> >> \o Tail(b)
         ELSE a \o b

\* the byte string given byte by byte
RECURSIVE RunsOfBytes(_)
RunsOfBytes(bs) ==
    IF bs = <<>> THEN <<>> ELSE RunCat(RunOf(Head(bs), 1), RunsOfBytes(Tail(bs)))

\* bs[0:n]
RECURSIVE RunTake(_, _)
RunTake(r, n) ==
    IF n <= 0 \/ r = <<>> THEN <<>>
    ELSE IF Head(r)[2] >= n THEN RunOf(Head(r)[1], n)
         ELSE RunCat(<<Head(r)>>, RunTake(Tail(r), n - Head(r)[2]))

\* bs[n:]
RECURSIVE RunDrop(_, _)
RunDrop(r, n) ==
    IF n <= 0 \/ r = <<>> THEN r
    ELSE IF Head(r)[2] > n THEN << <<Head(r)[1], Head(r)[2] - n>> >> \o Tail(r)
         ELSE RunDrop(Tail(r), n - Head(r)[2])

\* int.to_bytes(n, "big") for 0 <= v < 2^31: the value right-aligned in n bytes and
\* zero-padded on the left (a value below 2^31 has at most four bytes that are not 0)
ToBytesBig(v, n) ==
    LET k == Min(n, 4)
    IN  RunCat(RunOf(0, n - k),
               RunsOfBytes([i \in 1..k |-> (v \div Pow2(8 * (k - i))) % 256]))

\* stream.write(bs) at cursor p of a stream holding data: overwrites what is there,
\* extends the stream, fills a gap before p with zeros
StreamWrite(data, p, bs) ==
    LET padded == RunCat(data, RunOf(0, p - RunLen(data)))
    IN  RunCat(RunCat(RunTake(padded, p), bs), RunDrop(padded, p + RunLen(bs)))

-----------------------------------------------------------------------------
(* The Huffman table: HuffmanTableEntry and the table loader *)

\* bitstring.ConstBitArray("0b" + huffman_code): one bit per character
BitsOfCode(huffman_code) ==
    [i \in 1..Len(huffman_code) |-> IF huffman_code[i] = "1" THEN 1 ELSE 0]

\* HuffmanTableEntry.__init__
HuffmanTableEntry(dict1, dict2, dict_data_length_in_bytes, rank, huffman_code) ==
    [dict1_value            |-> ToBytesBig(dict1, dict_data_length_in_bytes),
     dict2_value            |-> ToBytesBig(dict2, dict_data_length_in_bytes),
     dictionary_data_length |-> dict_data_length_in_bytes,
     huffman_code_rank      |-> rank,
     huffman_code           |-> huffman_code,
     huffman_code_bits      |-> BitsOfCode(huffman_code)]

\* clear_huffman_table_data: the three globals as one record
ClearedTable ==
    [table |-> <<>>, longest |-> 0, shortest |-> sys_maxsize]

\* process_huffman_table_file_line on a line whose seven columns parse: row holds
\* the parsed dict1, dict2, dlen, rank and the code column
LoadTableRow(cb, row) ==
    LET table_entry == HuffmanTableEntry(row.dict1, row.dict2, row.dlen, row.rank, row.code)
        key == table_entry.huffman_code_bits
    IN  [table    |-> [k \in (DOMAIN cb.table) \cup {key} |->
                          IF k = key THEN table_entry ELSE cb.table[k]],
         longest  |-> IF row.rank > cb.longest THEN row.rank ELSE cb.longest,
         shortest |-> IF row.rank < cb.shortest THEN row.rank ELSE cb.shortest]

\* read_ascii_huffman_table_from_file: the lines of the file, in order
RECURSIVE LoadTableRows(_, _)
LoadTableRows(cb, rows) ==
    IF rows = <<>> THEN cb ELSE LoadTableRows(LoadTableRow(cb, Head(rows)), Tail(rows))

Row(d1, d2, n, r, c) == [dict1 |-> d1, dict2 |-> d2, dlen |-> n, rank |-> r, code |-> c]

\* The tables the decoder is run with.
\*   "short": codes of 1 to 3 bits; 010 is no code
\*   "long" : codes of 8 and 9 bits that decode to long strings, so that few codes
\*            fill a page
TableRows(name) ==
    CASE name = "short" ->
           << Row(65, 97, 1, 1, <<"1">>),
              Row(16962, 25186, 2, 2, <<"0", "0">>),
              Row(67, 99, 1, 3, <<"0", "1", "1">>) >>
      [] name = "long" ->
           << Row(65, 97, 2048, 8, <<"0", "0", "0", "0", "0", "0", "0", "0">>),
              Row(66, 98, 4095, 8, <<"0", "0", "0", "0", "0", "0", "0", "1">>),
              Row(67, 99, 1, 9, <<"1", "0", "1", "1", "0", "0", "0", "0", "0">>) >>
      [] OTHER -> << >>

TableNames == {"short", "long"}

\* the byte values the input streams are made of: 00000000, 00000001, 10110000
ByteVals == {0, 1, 176}

-----------------------------------------------------------------------------
(* decode_page_from_input_file_i: the pieces of its body *)

\* [every size is replaced by the page maximum]
EffectivePageSize_AlwaysMax(size) == HUFFMAN_PAGE_DECODED_SIZE_MAX

\* the size the page is decoded with: a size of 0 is replaced by the page maximum
EffectivePageSize(size) ==
    IF size = 0 THEN HUFFMAN_PAGE_DECODED_SIZE_MAX ELSE size

\* end_page_position = lut_entry_for_page.offset + lut_entry_for_page.size
EndPagePosition(entry) == entry.offset + entry.size

\* int(nbits / 8) + (1 if nbits % 8 > 0 else 0)
BytesForBits(nbits) == (nbits \div 8) + (IF nbits % 8 > 0 THEN 1 ELSE 0)

\* bytes_to_read_next of the initial read
PrefetchSize(longest, end_page, read_pos) ==
    Min(BytesForBits(longest), end_page - read_pos)

\* bytes_to_read_next of a refill
RefillSize(topoff_level, end_page, read_pos) ==
    Min(BytesForBits(topoff_level), end_page - read_pos)

\* if valid_bits_in_bitbuffer < longest_huffman_code_in_bits: refill
NeedsRefill(valid_bits, longest) == valid_bits < longest

\* del bitbuffer[0:len(bitbuffer) - valid_bits_in_bitbuffer]
Prune(bb, valid_bits) ==
    IF Len(bb) - valid_bits <= 0 THEN bb
    ELSE SubSeq(bb, Len(bb) - valid_bits + 1, Len(bb))

\* bitbuffer[0:n]
Leading(bb, n) == SubSeq(bb, 1, Min(n, Len(bb)))

\* for nbits_of_hcode in range(n, shortest - 1, -1): found = huffman_table.get(...)
\* the first hit, counting down from n; found = FALSE when the range is exhausted
RECURSIVE MatchCode(_, _, _, _)
MatchCode(table, bb, n, shortest) ==
    IF n < shortest \/ n < 0 THEN [found |-> FALSE, nbits |-> 0]
    ELSE IF Leading(bb, n) \in DOMAIN table
         THEN [found |-> TRUE, nbits |-> n, entry |-> table[Leading(bb, n)]]
         ELSE MatchCode(table, bb, n - 1, shortest)

\* longest_code_possible = int(min(longest_huffman_code_in_bits, valid_bits_in_bitbuffer))
LongestCodePossible(longest, valid_bits) == Min(longest, valid_bits)

\* [dict1 is written whatever the selector is]
DcodeToWrite_Dict1Only(entry, dictionary_selector) == entry.dict1_value

\* found.dict2_value if dictionary_selector == 1 else found.dict1_value
DcodeToWrite(entry, dictionary_selector) ==
    IF dictionary_selector = 1 THEN entry.dict2_value ELSE entry.dict1_value

\* if write_position >= HUFFMAN_PAGE_DECODED_SIZE_MAX: return write_position
PageLimitReached(write_pos) == write_pos >= HUFFMAN_PAGE_DECODED_SIZE_MAX

\* [the miss returns the bytes written, as the other loop does]
MainNoMatch_ReturnsWritten(write_pos) == [pc |-> "done", result |-> write_pos]

\* [the miss goes on to the next turn of the loop instead of returning]
MainNoMatch_Continues(write_pos) == [pc |-> "main", result |-> 0]

\* if not found, in the loop that reads: return -1
MainNoMatch(write_pos) == [pc |-> "done", result |-> -1]

\* [the miss skips one bit and goes on matching the rest]
TailNoMatch_SkipsOneBit(bb, valid_bits) ==
    IF bb = <<>> \/ valid_bits <= 0 THEN [bitbuffer |-> <<>>, valid_bits |-> 0]
    ELSE [bitbuffer |-> Tail(bb), valid_bits |-> valid_bits - 1]

\* if not found, in the loop that drains the bitbuffer: clear it and go on, which
\* ends that loop; the bits and the valid count it is left with
TailNoMatch(bb, valid_bits) == [bitbuffer |-> <<>>, valid_bits |-> 0]

-----------------------------------------------------------------------------
(* decode_page_from_input_file_i as a state machine.                        *)
(* pc: "start" (called) -> "main" (at the test of the loop that reads)      *)
(*     -> "main_match" (new data appended, about to match) -> "main" ...    *)
(*     -> "tail" (at the test of the loop that drains) -> "done" (returned) *)

\* LUTentry.__init__
LUTentry(offset, dictionary_selector) ==
    [offset |-> offset, dictionary_selector |-> dictionary_selector, size |-> 0]

\* the streams of at most n bytes
ByteStrings(n) == UNION {[1..k -> ByteVals] : k \in 0..n}

\* the LUT entries a page is decoded with
LutEntries ==
    [offset : 0..MaxOffset, dictionary_selector : {0, 1}, size : 0..MaxPageSize]

\* what the function's locals hold before the call
LocalsAtCall ==
    /\ pc = "start"
    /\ read_position = 0
    /\ write_position = 0
    /\ matched = <<>>
    /\ bitbuffer_topoff_level = 0
    /\ end_page_position = 0
    /\ in_data = <<>>
    /\ valid_bits_in_bitbuffer = 0
    /\ bitbuffer = <<>>
    /\ result = 0

LutIdle ==
    /\ lut_inp_data = <<>>
    /\ lut_inp_pos = 0
    /\ reverse_byte_ordering = FALSE
    /\ bytes_of_lut_to_read = 0
    /\ position = 0
    /\ entry_index = 0
    /\ local_lut_return_value = <<>>
    /\ lut_pc = "idle"

\* no line was given to the table loader yet
TableIdle ==
    /\ line = <<>>
    /\ line_outcome = "idle"
    /\ table_calls = 0

\* no image was scanned
ScanIdle ==
    /\ scan_data = <<>>
    /\ begin_at_offset_in_bytes = 0
    /\ found_position = <<>>
    /\ found_positions = <<>>
    /\ scan_pc = "idle"

\* Python's None, and a list, as values a function returns
None == [is_none |-> TRUE, list |-> <<>>]
ListOf(l) == [is_none |-> FALSE, list |-> l]

\* get_all_cdt was not called
FptIdle ==
    /\ fpt_file = <<>>
    /\ fpt_file_pos = 0
    /\ offset_of_fpt = 0
    /\ code_partitions = None
    /\ fpt_pc = "idle"

\* the code-directory readers were not called
CpdIdle ==
    /\ cpd_file = <<>>
    /\ cpd_file_pos = 0
    /\ code_partition_desc = [offset_of_cdt_header |-> 0, size |-> 0, name |-> <<>>]
    /\ code_objects = None
    /\ huffman_code_objects = None
    /\ cpd_pc = "idle"

\* the driver was not called
DrvIdle ==
    /\ file_table_location = -1
    /\ extract_only_objects_named = <<>>
    /\ code_partition_descriptors = <<>>
    /\ partition_index = 0
    /\ code_object_entries = <<>>
    /\ object_index = 0
    /\ code_object_lut = <<>>
    /\ page_index = 0
    /\ code_object_position_start = 0
    /\ output_write_position = 0
    /\ decode_result = 0
    /\ decoded_binaries_by_abs_offset = <<>>
    /\ drv_pc = "idle"
    /\ output_files = <<>>
    /\ aliases = <<>>
    /\ page_log = <<>>

RestIdle == TableIdle /\ ScanIdle /\ FptIdle /\ CpdIdle /\ DrvIdle

\* no page decode is under way and none was made
DecoderIdle ==
    /\ inp_data = <<>>
    /\ inp_pos = 0
    /\ lut_entry_for_page = LUTentry(0, 0)
    /\ outp = <<>>
    /\ outp_pos = 0
    /\ offset_into_output = 0
    /\ topoff_factor = TOPOFF_FACTOR
    /\ LocalsAtCall
    /\ call = 0
    /\ first_outp = <<>>
    /\ first_result = 0
    /\ first_matched = <<>>
    /\ first_read_position = 0

\* The module is imported: the table is empty, nothing is called.
InitDecode ==
    /\ huffman_table = ClearedTable.table
    /\ longest_huffman_code_in_bits = ClearedTable.longest
    /\ shortest_huffman_code_in_bits = ClearedTable.shortest
    /\ inp_data = <<>>
    /\ inp_pos = 0
    /\ lut_entry_for_page = LUTentry(0, 0)
    /\ outp = <<>>
    /\ outp_pos = 0
    /\ offset_into_output = 0
    /\ topoff_factor = TOPOFF_FACTOR
    /\ LocalsAtCall
    /\ call = 0
    /\ first_outp = <<>>
    /\ first_result = 0
    /\ first_matched = <<>>
    /\ first_read_position = 0
    /\ LutIdle
    /\ RestIdle

\* read_ascii_huffman_table_from_file on one of the table files, into the empty table
LoadTable ==
    /\ call = 0
    /\ huffman_table = <<>>
    /\ \E name \in TableNames :
          LET cb == LoadTableRows(ClearedTable, TableRows(name))
          IN  /\ huffman_table' = cb.table
              /\ longest_huffman_code_in_bits' = cb.longest
              /\ shortest_huffman_code_in_bits' = cb.shortest
    /\ UNCHANGED <<inp_data, inp_pos, lut_entry_for_page, outp, outp_pos, offset_into_output,
                   topoff_factor, pc, read_position, write_position, matched, bitbuffer_topoff_level,
                   end_page_position, in_data, valid_bits_in_bitbuffer, bitbuffer, result,
                   call, first_outp, first_result, first_matched, first_read_position, lutVars, restVars>>

\* The caller calls decode_page_from_input_file_i(inp, lut_entry, outp, 0) as lines
\* 658-666 do: an output just opened, the input cursor put at the base of the code
\* object (0 here), a LUT entry.
CallDecode ==
    /\ call = 0
    /\ inp_data' \in ByteStrings(MaxFileLen)
    /\ inp_pos' = 0
    /\ lut_entry_for_page' \in LutEntries
    /\ outp' = <<>>
    /\ outp_pos' = 0
    /\ offset_into_output' = 0
    /\ call' = 1
    /\ UNCHANGED <<huffman_table, longest_huffman_code_in_bits, shortest_huffman_code_in_bits,
                   topoff_factor, pc, read_position, write_position, matched, bitbuffer_topoff_level,
                   end_page_position, in_data, valid_bits_in_bitbuffer, bitbuffer, result,
                   first_outp, first_result, first_matched, first_read_position, lutVars, restVars>>

\* lines 344-385: the seeks, the size fix-up, the initial read
Prefetch ==
    /\ pc = "start"
    /\ call > 0
    /\ LET entry  == [lut_entry_for_page EXCEPT !.size = EffectivePageSize(@)]
           start  == inp_pos + entry.offset             \* inp.seek(offset, SEEK_CUR)
           endpos == EndPagePosition(entry)
           data   == StreamRead(inp_data, start, PrefetchSize(longest_huffman_code_in_bits, endpos, 0))
       IN  /\ lut_entry_for_page' = entry
           /\ end_page_position' = endpos
           /\ in_data' = data
           /\ inp_pos' = start + Len(data)
           /\ read_position' = Len(data)
    /\ write_position' = 0
    /\ matched' = <<>>
    /\ outp_pos' = offset_into_output                   \* outp.seek(offset_into_output)
    /\ bitbuffer_topoff_level' = longest_huffman_code_in_bits * topoff_factor
    /\ valid_bits_in_bitbuffer' = 0
    /\ bitbuffer' = <<>>
    /\ pc' = "main"
    /\ UNCHANGED <<huffman_table, longest_huffman_code_in_bits, shortest_huffman_code_in_bits,
                   inp_data, outp, offset_into_output, topoff_factor, result,
                   call, first_outp, first_result, first_matched, first_read_position, lutVars, restVars>>

\* lines 422-440: the loop test holds; prune the bitbuffer and append the new data
MainAppend ==
    /\ pc = "main"
    /\ read_position < end_page_position
    /\ bitbuffer' = Prune(bitbuffer, valid_bits_in_bitbuffer) \o BitsOfBytes(in_data)
    /\ valid_bits_in_bitbuffer' = valid_bits_in_bitbuffer + 8 * Len(in_data)
    /\ in_data' = <<>>
    /\ pc' = "main_match"
    /\ UNCHANGED <<huffman_table, longest_huffman_code_in_bits, shortest_huffman_code_in_bits,
                   inp_data, inp_pos, lut_entry_for_page, outp, outp_pos, offset_into_output,
                   topoff_factor, read_position, write_position, matched, bitbuffer_topoff_level,
                   end_page_position, result, call, first_outp, first_result, first_matched, first_read_position, lutVars, restVars>>

\* lines 441-480: match, write, page limit, consume, refill
MainMatch ==
    /\ pc = "main_match"
    /\ LET m == MatchCode(huffman_table, bitbuffer,
                          LongestCodePossible(longest_huffman_code_in_bits, valid_bits_in_bitbuffer),
                          shortest_huffman_code_in_bits)
       IN  IF ~m.found
           THEN /\ pc' = MainNoMatch(write_position).pc
                /\ result' = MainNoMatch(write_position).result
                /\ UNCHANGED <<outp, outp_pos, write_position, matched, valid_bits_in_bitbuffer,
                               in_data, inp_pos, read_position>>
           ELSE LET dcode_to_write == DcodeToWrite(m.entry, lut_entry_for_page.dictionary_selector)
                    wp    == write_position + RunLen(dcode_to_write)
                    valid == valid_bits_in_bitbuffer - m.nbits
                    data  == StreamRead(inp_data, inp_pos,
                                        RefillSize(bitbuffer_topoff_level, end_page_position, read_position))
                IN  /\ outp' = StreamWrite(outp, outp_pos, dcode_to_write)
                    /\ outp_pos' = outp_pos + RunLen(dcode_to_write)
                    /\ write_position' = wp
                    /\ matched' = Append(matched, m.entry.huffman_code)
                    /\ IF PageLimitReached(wp)
                       THEN /\ pc' = "done"
                            /\ result' = wp
                            /\ UNCHANGED <<valid_bits_in_bitbuffer, in_data, inp_pos, read_position>>
                       ELSE /\ pc' = "main"
                            /\ result' = result
                            /\ valid_bits_in_bitbuffer' = valid
                            /\ IF NeedsRefill(valid, longest_huffman_code_in_bits)
                               THEN /\ in_data' = data
                                    /\ inp_pos' = inp_pos + Len(data)
                                    /\ read_position' = read_position + Len(data)
                               ELSE /\ in_data' = <<>>
                                    /\ UNCHANGED <<inp_pos, read_position>>
    /\ UNCHANGED <<huffman_table, longest_huffman_code_in_bits, shortest_huffman_code_in_bits,
                   inp_data, lut_entry_for_page, offset_into_output, topoff_factor,
                   bitbuffer, bitbuffer_topoff_level, end_page_position,
                   call, first_outp, first_result, first_matched, first_read_position, lutVars, restVars>>

\* lines 422, 488: the loop test fails; prune the bitbuffer
MainExit ==
    /\ pc = "main"
    /\ ~(read_position < end_page_position)
    /\ bitbuffer' = Prune(bitbuffer, valid_bits_in_bitbuffer)
    /\ pc' = "tail"
    /\ UNCHANGED <<huffman_table, longest_huffman_code_in_bits, shortest_huffman_code_in_bits,
                   inp_data, inp_pos, lut_entry_for_page, outp, outp_pos, offset_into_output,
                   topoff_factor, read_position, write_position, matched, bitbuffer_topoff_level,
                   end_page_position, in_data, valid_bits_in_bitbuffer, result,
                   call, first_outp, first_result, first_matched, first_read_position, lutVars, restVars>>

\* lines 493-518: one turn of the loop that drains the bitbuffer
TailMatch ==
    /\ pc = "tail"
    /\ Len(bitbuffer) >= shortest_huffman_code_in_bits
    /\ LET bb == Prune(bitbuffer, valid_bits_in_bitbuffer)
           m  == MatchCode(huffman_table, bb,
                           LongestCodePossible(longest_huffman_code_in_bits, valid_bits_in_bitbuffer),
                           shortest_huffman_code_in_bits)
       IN  IF m.found
           THEN LET dcode_to_write == DcodeToWrite(m.entry, lut_entry_for_page.dictionary_selector)
                    wp == write_position + RunLen(dcode_to_write)
                IN  /\ outp' = StreamWrite(outp, outp_pos, dcode_to_write)
                    /\ outp_pos' = outp_pos + RunLen(dcode_to_write)
                    /\ write_position' = wp
                    /\ matched' = Append(matched, m.entry.huffman_code)
                    /\ bitbuffer' = bb
                    /\ IF PageLimitReached(wp)
                       THEN /\ pc' = "done"
                            /\ result' = wp
                            /\ UNCHANGED valid_bits_in_bitbuffer
                       ELSE /\ pc' = "tail"
                            /\ result' = result
                            /\ valid_bits_in_bitbuffer' = valid_bits_in_bitbuffer - m.nbits
           ELSE /\ bitbuffer' = TailNoMatch(bb, valid_bits_in_bitbuffer).bitbuffer
                /\ valid_bits_in_bitbuffer' = TailNoMatch(bb, valid_bits_in_bitbuffer).valid_bits
                /\ pc' = "tail"
                /\ UNCHANGED <<outp, outp_pos, write_position, matched, result>>
    /\ UNCHANGED <<huffman_table, longest_huffman_code_in_bits, shortest_huffman_code_in_bits,
                   inp_data, inp_pos, lut_entry_for_page, offset_into_output, topoff_factor,
                   read_position, bitbuffer_topoff_level, end_page_position, in_data,
                   call, first_outp, first_result, first_matched, first_read_position, lutVars, restVars>>

\* lines 493, 524: the loop test fails; return write_position
TailExit ==
    /\ pc = "tail"
    /\ ~(Len(bitbuffer) >= shortest_huffman_code_in_bits)
    /\ result' = write_position
    /\ pc' = "done"
    /\ UNCHANGED <<huffman_table, longest_huffman_code_in_bits, shortest_huffman_code_in_bits,
                   inp_data, inp_pos, lut_entry_for_page, outp, outp_pos, offset_into_output,
                   topoff_factor, read_position, write_position, matched, bitbuffer_topoff_level,
                   end_page_position, in_data, valid_bits_in_bitbuffer, bitbuffer,
                   call, first_outp, first_result, first_matched, first_read_position, lutVars, restVars>>

\* The caller decodes the same page once more, as lines 658-666 do for a page: a
\* fresh output, the input cursor back at the base of the code object, the same
\* LUT entry object. The second call is made with the refill level
\* longest_huffman_code_in_bits * k in place of * 10.
Rerun ==
    /\ pc = "done"
    /\ call = 1
    /\ \E k \in 1..MaxAltFactor : topoff_factor' = k
    /\ first_outp' = outp
    /\ first_result' = result
    /\ first_matched' = matched
    /\ first_read_position' = read_position
    /\ call' = 2
    /\ inp_pos' = 0
    /\ outp' = <<>>
    /\ outp_pos' = 0
    /\ pc' = "start"
    /\ read_position' = 0
    /\ write_position' = 0
    /\ matched' = <<>>
    /\ bitbuffer_topoff_level' = 0
    /\ end_page_position' = 0
    /\ in_data' = <<>>
    /\ valid_bits_in_bitbuffer' = 0
    /\ bitbuffer' = <<>>
    /\ result' = 0
    /\ UNCHANGED <<huffman_table, longest_huffman_code_in_bits, shortest_huffman_code_in_bits,
                   inp_data, lut_entry_for_page, offset_into_output, lutVars, restVars>>

\* a step of decode_page_from_input_file_i
DecodeStep ==
    \/ Prefetch
    \/ MainAppend
    \/ MainMatch
    \/ MainExit
    \/ TailMatch
    \/ TailExit

NextDecode ==
    \/ LoadTable
    \/ CallDecode
    \/ DecodeStep
    \/ Rerun

Spec == InitDecode /\ [][NextDecode]_vars

\* The caller decodes the same page once more with the other dictionary: a fresh
\* output, the input cursor back at the base of the code object, the same codebook,
\* compressed_offset and page_size, and the dictionary_selector of the LUT entry
\* (bit 30 or 31 of the LUT word, line 268) changed from 0 to 1 or from 1 to 0.
RerunOtherSelector ==
    /\ pc = "done"
    /\ call = 1
    /\ lut_entry_for_page' =
          [lut_entry_for_page EXCEPT !.dictionary_selector = 1 - @]
    /\ first_outp' = outp
    /\ first_result' = result
    /\ first_matched' = matched
    /\ first_read_position' = read_position
    /\ call' = 2
    /\ inp_pos' = 0
    /\ outp' = <<>>
    /\ outp_pos' = 0
    /\ pc' = "start"
    /\ read_position' = 0
    /\ write_position' = 0
    /\ matched' = <<>>
    /\ bitbuffer_topoff_level' = 0
    /\ end_page_position' = 0
    /\ in_data' = <<>>
    /\ valid_bits_in_bitbuffer' = 0
    /\ bitbuffer' = <<>>
    /\ result' = 0
    /\ UNCHANGED <<huffman_table, longest_huffman_code_in_bits, shortest_huffman_code_in_bits,
                   inp_data, offset_into_output, topoff_factor, lutVars, restVars>>

NextSelectors ==
    \/ LoadTable
    \/ CallDecode
    \/ DecodeStep
    \/ RerunOtherSelector

\* a page decoded with one dictionary and then with the other
SpecSelectors == InitDecode /\ [][NextSelectors]_vars

-----------------------------------------------------------------------------
(* read_lut *)

\* the index of the byte that holds the selector bits, and of the three below it
\* (0-based, as in rawdata[...])
LutByteIndex(k, reverse) == IF reverse THEN 3 - k ELSE k

\* rawdata[...] & 0xC0
HuffmanSelectorBits(b) == BitField(b, 6, 8)

\* [only 0xC0 is taken for a valid selector]
SelectorInvalid_Only11(huffman_selector) == huffman_selector # 192

\* (huffman_selector != 0xC0) and (huffman_selector != 0x40): the entry is skipped
SelectorInvalid(huffman_selector) ==
    (huffman_selector # 192) /\ (huffman_selector # 64)

\* huffman_selector = 1 if (huffman_selector == 0xC0) else 0
SelectorOf(huffman_selector) == IF huffman_selector = 192 THEN 1 ELSE 0

\* the 30-bit offset: the four byte fields do not overlap, so | adds them
LutOffset(rawdata, reverse) ==
      BitField(rawdata[LutByteIndex(0, reverse) + 1], 0, 6) * Pow2(24)
    + rawdata[LutByteIndex(1, reverse) + 1] * Pow2(16)
    + rawdata[LutByteIndex(2, reverse) + 1] * Pow2(8)
    + rawdata[LutByteIndex(3, reverse) + 1]

\* [the size is patched at the index before the previous entry's]
AppendLutEntry_PatchesOneBefore(lut, index, new_lut_entry) ==
    Append(IF index > 1
           THEN [lut EXCEPT ![index - 1].size = new_lut_entry.offset - lut[index - 1].offset]
           ELSE lut,
           new_lut_entry)

\* if entry_index > 0: local_lut_return_value[entry_index - 1].size = ...
\* then local_lut_return_value.append(new_lut_entry)
AppendLutEntry(lut, index, new_lut_entry) ==
    Append(IF index > 0
           THEN [lut EXCEPT ![index].size = new_lut_entry.offset - lut[index].offset]
           ELSE lut,
           new_lut_entry)

\* the 4-byte words the LUT streams are made of: selector bits 01, 11, 00 and 10 in
\* the first byte, and others in the last byte, for the reversed order
LutWordVals ==
    { <<64, 0, 0, 0>>, <<64, 0, 0, 5>>, <<193, 2, 3, 4>>,
      <<0, 0, 0, 7>>, <<128, 0, 1, 64>>, <<9, 0, 0, 192>> }

RECURSIVE Flatten(_)
Flatten(ws) == IF ws = <<>> THEN <<>> ELSE Head(ws) \o Flatten(Tail(ws))

\* read_lut is called on a stream of whole words, to read none, some or all of
\* them, or one word more than there are
InitLut ==
    /\ \E n \in 0..MaxLutWords :
         /\ \E ws \in [1..n -> LutWordVals] : lut_inp_data = Flatten(ws)
         /\ \E k \in 0..(n + 1) : bytes_of_lut_to_read = 4 * k
    /\ lut_inp_pos = 0
    /\ reverse_byte_ordering \in BOOLEAN
    /\ position = 0
    /\ entry_index = 0
    /\ local_lut_return_value = <<>>
    /\ lut_pc = "loop"
    \* no page decode is under way
    /\ huffman_table = <<>>
    /\ longest_huffman_code_in_bits = 0
    /\ shortest_huffman_code_in_bits = sys_maxsize
    /\ inp_data = <<>>
    /\ inp_pos = 0
    /\ lut_entry_for_page = LUTentry(0, 0)
    /\ outp = <<>>
    /\ outp_pos = 0
    /\ offset_into_output = 0
    /\ topoff_factor = TOPOFF_FACTOR
    /\ LocalsAtCall
    /\ call = 1
    /\ first_outp = <<>>
    /\ first_result = 0
    /\ first_matched = <<>>
    /\ first_read_position = 0
    /\ RestIdle

\* lines 254-274: one turn of the loop, on a word that can be read whole
LutReadWord ==
    /\ lut_pc = "loop"
    /\ position < bytes_of_lut_to_read
    /\ LET rawdata == StreamRead(lut_inp_data, lut_inp_pos, 4)
           huffman_selector ==
               HuffmanSelectorBits(rawdata[LutByteIndex(0, reverse_byte_ordering) + 1])
       IN  /\ Len(rawdata) = 4
           /\ lut_inp_pos' = lut_inp_pos + 4
           /\ position' = position + 4
           /\ IF SelectorInvalid(huffman_selector)
              THEN UNCHANGED <<local_lut_return_value, entry_index>>       \* continue
              ELSE /\ local_lut_return_value' =
                        AppendLutEntry(local_lut_return_value, entry_index,
                                       LUTentry(LutOffset(rawdata, reverse_byte_ordering),
                                                SelectorOf(huffman_selector)))
                   /\ entry_index' = entry_index + 1
    /\ UNCHANGED <<lut_inp_data, reverse_byte_ordering, bytes_of_lut_to_read, lut_pc, decVars, restVars>>

\* lines 254-267: the stream ends inside the word: indexing rawdata raises IndexError
\* (at the selector byte, or, when that byte is there and valid, at a byte of the offset)
LutReadShort ==
    /\ lut_pc = "loop"
    /\ position < bytes_of_lut_to_read
    /\ LET rawdata == StreamRead(lut_inp_data, lut_inp_pos, 4)
           sel_at  == LutByteIndex(0, reverse_byte_ordering) + 1
       IN  /\ Len(rawdata) < 4
           /\ lut_inp_pos' = lut_inp_pos + Len(rawdata)
           /\ position' = position + 4
           /\ IF sel_at <= Len(rawdata) /\ SelectorInvalid(HuffmanSelectorBits(rawdata[sel_at]))
              THEN lut_pc' = "loop"                                        \* continue
              ELSE lut_pc' = "raised"
    /\ UNCHANGED <<lut_inp_data, reverse_byte_ordering, bytes_of_lut_to_read,
                   local_lut_return_value, entry_index, decVars, restVars>>

\* lines 254, 276: the loop test fails; return local_lut_return_value
LutReturn ==
    /\ lut_pc = "loop"
    /\ ~(position < bytes_of_lut_to_read)
    /\ lut_pc' = "done"
    /\ UNCHANGED <<lut_inp_data, lut_inp_pos, reverse_byte_ordering, bytes_of_lut_to_read,
                   position, entry_index, local_lut_return_value, decVars, restVars>>

NextLut ==
    \/ LutReadWord
    \/ LutReadShort
    \/ LutReturn

SpecLut == InitLut /\ [][NextLut]_vars

-----------------------------------------------------------------------------
(* process_huffman_table_file_line and clear_huffman_table_data.            *)
(* A line is the sequence of its characters; the lines are written over the *)
(* characters 0-9, a-f, x, #, +, - and the blank.                           *)

Whitespace == {" "}

\* line.split(): the maximal runs of characters that are not whitespace
RECURSIVE SplitFrom(_, _, _)
SplitFrom(chars, token, tokens) ==
    IF chars = <<>>
    THEN IF token = <<>> THEN tokens ELSE Append(tokens, token)
    ELSE IF Head(chars) \in Whitespace
         THEN SplitFrom(Tail(chars), <<>>,
                        IF token = <<>> THEN tokens ELSE Append(tokens, token))
         ELSE SplitFrom(Tail(chars), Append(token, Head(chars)), tokens)

Split(chars) == SplitFrom(chars, <<>>, <<>>)

\* the value of a character as a digit; 99 for a character that is no digit
DigitVal(c) ==
    CASE c = "0" -> 0 [] c = "1" -> 1 [] c = "2" -> 2 [] c = "3" -> 3 [] c = "4" -> 4
      [] c = "5" -> 5 [] c = "6" -> 6 [] c = "7" -> 7 [] c = "8" -> 8 [] c = "9" -> 9
      [] c = "a" -> 10 [] c = "b" -> 11 [] c = "c" -> 12 [] c = "d" -> 13
      [] c = "e" -> 14 [] c = "f" -> 15 [] OTHER -> 99

\* the digits ds read in the given base, most significant first
RECURSIVE DigitsValue(_, _, _)
DigitsValue(ds, base, acc) ==
    IF ds = <<>> THEN acc
    ELSE DigitsValue(Tail(ds), base, acc * base + DigitVal(Head(ds)))

\* int(token, base): an optional sign, for base 16 an optional 0x, then one digit
\* of the base or more; anything else raises ValueError (ok = FALSE)
ParseInt(token, base) ==
    LET signed   == token # <<>> /\ Head(token) \in {"+", "-"}
        unsigned == IF signed THEN Tail(token) ELSE token
        prefixed == base = 16 /\ Len(unsigned) >= 2
                      /\ unsigned[1] = "0" /\ unsigned[2] = "x"
        digits   == IF prefixed THEN Tail(Tail(unsigned)) ELSE unsigned
        ok       == digits # <<>> /\ \A i \in 1..Len(digits) : DigitVal(digits[i]) < base
    IN  [ok  |-> ok,
         val |-> IF ~ok THEN 0
                 ELSE IF signed /\ Head(token) = "-" THEN 0 - DigitsValue(digits, base, 0)
                 ELSE DigitsValue(digits, base, 0)]

\* lines 153-160 (the try block up to the code column): the columns of the line as
\* a row, or ok = FALSE when tokens[6] does not exist or an int() raises
ParseLine(chars) ==
    LET tokens == Split(chars)
    IN  IF Len(tokens) < 7 THEN [ok |-> FALSE]
        ELSE LET dict1 == ParseInt(tokens[1], 16)
                 dict2 == ParseInt(tokens[3], 16)
                 dlen  == ParseInt(tokens[5], 10)
                 rank  == ParseInt(tokens[6], 10)
             IN  IF dict1.ok /\ dict2.ok /\ dlen.ok /\ rank.ok
                 THEN [ok |-> TRUE, dict1 |-> dict1.val, dict2 |-> dict2.val,
                       dlen |-> dlen.val, rank |-> rank.val, code |-> tokens[7]]
                 ELSE [ok |-> FALSE]

\* int.to_bytes(n, "big") returns: n is not negative and the value is one of n bytes
ToBytesFits(v, n) == n >= 0 /\ v >= 0 /\ (n >= 4 \/ v < Pow2(8 * n))

\* bitstring.ConstBitArray("0b" + huffman_code) returns: the code is written in 0 and 1
CodeIsBits(huffman_code) ==
    \A i \in 1..Len(huffman_code) : huffman_code[i] \in {"0", "1"}

\* HuffmanTableEntry(...) returns an entry (it is called outside the try block, so
\* what it raises reaches the caller)
EntryConstructs(row) ==
    /\ ToBytesFits(row.dict1, row.dlen)
    /\ ToBytesFits(row.dict2, row.dlen)
    /\ CodeIsBits(row.code)

\* lines 161-164: the two counters after the rank of a line was read
RanksAfter(cb, rank) ==
    [table    |-> cb.table,
     longest  |-> IF rank > cb.longest THEN rank ELSE cb.longest,
     shortest |-> IF rank < cb.shortest THEN rank ELSE cb.shortest]

\* process_huffman_table_file_line(line): the three globals after the call and how
\* the call ended
ProcessLine(cb, chars) ==
    LET row == ParseLine(chars)
    IN  IF ~row.ok THEN [cb |-> cb, outcome |-> "returned"]
        ELSE IF ~EntryConstructs(row)
             THEN [cb |-> RanksAfter(cb, row.rank), outcome |-> "raised"]
             ELSE [cb |-> LoadTableRow(cb, row), outcome |-> "returned"]

\* the lines given to the loader
TableLines ==
    { <<"4","1"," ","0"," ","6","1"," ","0"," ","1"," ","1"," ","1">>,
      <<"4","2","4","2"," ","0"," ","6","2","6","2"," ","0"," ","2"," ","2"," ","0","0">>,
      <<"4","3"," ","0"," ","6","3"," ","0"," ","1"," ","3"," ","0","1","1">>,
      \* a comment, an empty line, a line of six columns, a length that is no decimal
      <<"#"," ","a","b","c">>,
      <<>>,
      <<"4","1"," ","0"," ","6","1"," ","0"," ","1"," ","1">>,
      <<"4","1"," ","0"," ","6","1"," ","0"," ","1","a"," ","1"," ","1">>,
      \* a depth of 5 with a code of 3 bits
      <<"4","3"," ","0"," ","6","3"," ","0"," ","1"," ","5"," ","0","1","1">>,
      \* values of two bytes with a length of one
      <<"4","2","4","2"," ","0"," ","6","2","6","2"," ","0"," ","1"," ","2"," ","0","0">> }

\* the three globals as one record
CurrentTable ==
    [table    |-> huffman_table,
     longest  |-> longest_huffman_code_in_bits,
     shortest |-> shortest_huffman_code_in_bits]

\* process_huffman_table_file_line is called on a line
TableProcessLine ==
    /\ call = 0
    /\ table_calls < MaxTableCalls
    /\ \E chars \in TableLines :
          LET r == ProcessLine(CurrentTable, chars)
          IN  /\ line' = chars
              /\ huffman_table' = r.cb.table
              /\ longest_huffman_code_in_bits' = r.cb.longest
              /\ shortest_huffman_code_in_bits' = r.cb.shortest
              /\ line_outcome' = r.outcome
    /\ table_calls' = table_calls + 1
    /\ UNCHANGED <<inp_data, inp_pos, lut_entry_for_page, outp, outp_pos, offset_into_output,
                   topoff_factor, pc, read_position, write_position, matched, bitbuffer_topoff_level,
                   end_page_position, in_data, valid_bits_in_bitbuffer, bitbuffer, result,
                   call, first_outp, first_result, first_matched, first_read_position, othersOfTable>>

\* clear_huffman_table_data is called
TableClear ==
    /\ call = 0
    /\ table_calls < MaxTableCalls
    /\ huffman_table' = ClearedTable.table
    /\ longest_huffman_code_in_bits' = ClearedTable.longest
    /\ shortest_huffman_code_in_bits' = ClearedTable.shortest
    /\ line' = <<>>
    /\ line_outcome' = "cleared"
    /\ table_calls' = table_calls + 1
    /\ UNCHANGED <<inp_data, inp_pos, lut_entry_for_page, outp, outp_pos, offset_into_output,
                   topoff_factor, pc, read_position, write_position, matched, bitbuffer_topoff_level,
                   end_page_position, in_data, valid_bits_in_bitbuffer, bitbuffer, result,
                   call, first_outp, first_result, first_matched, first_read_position, othersOfTable>>

NextTable == TableProcessLine \/ TableClear

\* the loader and the clear, called in any order on the module as imported
SpecTable == InitDecode /\ [][NextTable]_vars

-----------------------------------------------------------------------------
(* find_fpt, and the loop of main_run_find_filetable around it.             *)

\* '$FPT', the bytes 0x24 0x46 0x50 0x54
FPT_MAGIC == <<36, 70, 80, 84>>

\* struct '<I' / bitstring 'uintle:32': the four bytes of buf from offset off on
\* (offsets count from 0), least significant first
U32LE(buf, off) ==
    buf[off + 1] + 256 * buf[off + 2] + 65536 * buf[off + 3] + 16777216 * buf[off + 4]

\* bitstring.ConstBitStream(file, offset=8 * begin): the bytes from begin on
BitstreamFrom(data, begin) ==
    IF begin >= Len(data) THEN <<>> ELSE SubSeq(data, begin + 1, Len(data))

\* data_bits.find('0x24465054', bytealigned=True): the bit positions (a tuple of one,
\* or the empty tuple) of the first byte-aligned occurrence in the stream
FindMagic(stream) ==
    LET hits == {p \in 0..(Len(stream) - 4) : SubSeq(stream, p + 1, p + 4) = FPT_MAGIC}
    IN  IF hits = {} THEN <<>>
        ELSE <<8 * (CHOOSE p \in hits : \A q \in hits : p <= q)>>

\* find_fpt(data_bits, begin): None, or the list of four, or the ReadError that
\* readlist raises when fewer than 80 bits follow the position found
FindFpt(data, begin) ==
    LET stream == BitstreamFrom(data, begin)
        f      == FindMagic(stream)
    IN  IF f = <<>> THEN [outcome |-> "returned", value |-> <<>>]
        ELSE LET p == f[1] \div 8
             IN  IF Len(stream) - p < 10
                 THEN [outcome |-> "raised", value |-> <<>>]
                 ELSE [outcome |-> "returned",
                       value   |-> <<begin + p, U32LE(stream, p + 4),
                                     stream[p + 9], stream[p + 10]>>]

\* the pieces the scanned images are made of: the magic, a cut magic, the six bytes
\* that follow the magic in a header (2 entries, versions 0x20 and 0x10), one byte
ScanChunks ==
    { FPT_MAGIC, <<36, 70, 80>>, <<2, 0, 0, 0, 32, 16>>, <<0>> }

ScanImages ==
    UNION { {Flatten(cs) : cs \in [1..n -> ScanChunks]} : n \in 0..MaxScanChunks }

\* main_run_find_filetable is called on an image
InitScan ==
    /\ scan_data \in ScanImages
    /\ begin_at_offset_in_bytes = 0
    /\ found_position = <<>>
    /\ found_positions = <<>>
    /\ scan_pc = "call"
    /\ huffman_table = ClearedTable.table
    /\ longest_huffman_code_in_bits = ClearedTable.longest
    /\ shortest_huffman_code_in_bits = ClearedTable.shortest
    /\ DecoderIdle
    /\ LutIdle
    /\ TableIdle
    /\ FptIdle
    /\ CpdIdle
    /\ DrvIdle

\* lines 686-691: one call of find_fpt, and the loop test on what it returned
ScanCall ==
    /\ scan_pc = "call"
    /\ LET r == FindFpt(scan_data, begin_at_offset_in_bytes)
       IN  IF r.outcome = "raised"
           THEN /\ scan_pc' = "raised"
                /\ UNCHANGED <<found_position, found_positions, begin_at_offset_in_bytes>>
           ELSE /\ found_position' = r.value
                /\ IF r.value # <<>>
                   THEN /\ found_positions' = Append(found_positions, r.value)
                        /\ begin_at_offset_in_bytes' = r.value[1] + 1
                        /\ scan_pc' = "call"
                   ELSE /\ scan_pc' = "done"
                        /\ UNCHANGED <<found_positions, begin_at_offset_in_bytes>>
    /\ UNCHANGED <<scan_data, othersOfScan>>

NextScan == ScanCall

SpecScan == InitScan /\ [][NextScan]_vars

-----------------------------------------------------------------------------
(* string_from_buffer and get_all_cdt.                                      *)
(* A str is the sequence of its code points.                                *)

\* a continuation byte of UTF-8
IsCont(b) == b >= 128 /\ b <= 191

\* bytes.decode("UTF-8"): the code points, or ok = FALSE for UnicodeDecodeError
RECURSIVE Utf8Decode(_)
Utf8Decode(bs) ==
    IF bs = <<>> THEN [ok |-> TRUE, chars |-> <<>>]
    ELSE LET b == bs[1]
             n == IF b < 128 THEN 1
                  ELSE IF b >= 194 /\ b <= 223 THEN 2
                  ELSE IF b >= 224 /\ b <= 239 THEN 3
                  ELSE IF b >= 240 /\ b <= 244 THEN 4
                  ELSE 0
             wellformed ==
                 /\ n > 0
                 /\ Len(bs) >= n
                 /\ \A i \in 2..n : IsCont(bs[i])
                 /\ (b = 224) => bs[2] >= 160
                 /\ (b = 237) => bs[2] <= 159
                 /\ (b = 240) => bs[2] >= 144
                 /\ (b = 244) => bs[2] <= 143
             cp == CASE n = 1 -> b
                     [] n = 2 -> (b - 192) * 64 + (bs[2] - 128)
                     [] n = 3 -> (b - 224) * 4096 + (bs[2] - 128) * 64 + (bs[3] - 128)
                     [] OTHER -> (b - 240) * 262144 + (bs[2] - 128) * 4096
                                   + (bs[3] - 128) * 64 + (bs[4] - 128)
         IN  IF ~wellformed THEN [ok |-> FALSE, chars |-> <<>>]
             ELSE LET rest == Utf8Decode(SubSeq(bs, n + 1, Len(bs)))
                  IN  [ok |-> rest.ok, chars |-> IF rest.ok THEN <<cp>> \o rest.chars ELSE <<>>]

\* string_from_buffer(buffer, string_size, offset): struct.unpack_from raises
\* struct.error when the buffer is too short, decode raises UnicodeDecodeError
\* (ok = FALSE for both); unpack_from of one 's' item always returns one item
string_from_buffer(buffer, string_size, offset) ==
    IF Len(buffer) < offset + string_size THEN [ok |-> FALSE, chars |-> <<>>]
    ELSE Utf8Decode(SubSeq(buffer, offset + 1, offset + string_size))

\* the code points str.strip() takes for whitespace
StrWhitespace ==
    {9, 10, 11, 12, 13, 28, 29, 30, 31, 32, 133, 160, 5760, 8232, 8233, 8239, 8287, 12288}
        \cup (8192..8202)

\* str.strip(chars): the string without its leading and trailing characters of set
RECURSIVE LStrip(_, _)
LStrip(str, set) ==
    IF str # <<>> /\ Head(str) \in set THEN LStrip(Tail(str), set) ELSE str

RECURSIVE RStrip(_, _)
RStrip(str, set) ==
    IF str # <<>> /\ str[Len(str)] \in set
    THEN RStrip(SubSeq(str, 1, Len(str) - 1), set) ELSE str

Strip(str, set) == RStrip(LStrip(str, set), set)

\* name.strip() and then .strip('\0')
StripName(str) == Strip(Strip(str, StrWhitespace), {0})

\* CodePartitionDescriptor.__init__
CodePartitionDescriptor(offset_of_cdt_header, size, name) ==
    [offset_of_cdt_header |-> offset_of_cdt_header, size |-> size, name |-> name]

\* [the type is taken from the whole low byte of the flags]
IsCodeType_WholeByte(fpte_buffer) == fpte_buffer[29] = 0

\* ptype = raw_u32 & 0x7F, of the little-endian u32 at byte 28: the low 7 bits of
\* byte 28; a code partition has type 0
IsCodeType(fpte_buffer) == fpte_buffer[29] % 128 = 0

\* is_invalid = (raw_u32 >> 24) & 0xFF, of the same u32: byte 31
IsMarkedInvalid(fpte_buffer) == fpte_buffer[32] = 255

\* lines 183-215: the loop over the entries, from entry index on, reading at
\* cursor pos; the list so far is acc
RECURSIVE FptEntriesFrom(_, _, _, _, _)
FptEntriesFrom(file, pos, index, num_of_entries, acc) ==
    IF index >= num_of_entries
    THEN [outcome |-> "returned", list |-> acc, pos |-> pos]
    ELSE LET fpte_buffer == StreamRead(file, pos, 32)
             next        == pos + Len(fpte_buffer)
         IN  IF Len(fpte_buffer) < 32
             THEN [outcome |-> "raised", list |-> acc, pos |-> next]
             ELSE IF ~IsCodeType(fpte_buffer) \/ IsMarkedInvalid(fpte_buffer)
             THEN FptEntriesFrom(file, next, index + 1, num_of_entries, acc)
             ELSE LET cdt_name == string_from_buffer(fpte_buffer, 4, 0)
                  IN  IF ~cdt_name.ok
                      THEN [outcome |-> "raised", list |-> acc, pos |-> next]
                      ELSE FptEntriesFrom(file, next, index + 1, num_of_entries,
                               Append(acc, CodePartitionDescriptor(
                                               U32LE(fpte_buffer, 8), U32LE(fpte_buffer, 12),
                                               StripName(cdt_name.chars))))

\* get_all_cdt(from_opened_file, offset_of_fpt): how the call ends, the value it
\* returns and where it leaves the cursor
GetAllCdt(file, offset) ==
    LET fpt_buffer   == StreamRead(file, offset, 32)
        pos          == offset + Len(fpt_buffer)
        header_check == string_from_buffer(fpt_buffer, 4, 0)
    IN  IF ~header_check.ok THEN [outcome |-> "raised", value |-> None, pos |-> pos]
        ELSE IF header_check.chars # FPT_MAGIC
        THEN [outcome |-> "returned", value |-> None, pos |-> pos]
        ELSE IF Len(fpt_buffer) < 8 THEN [outcome |-> "raised", value |-> None, pos |-> pos]
        ELSE LET r == FptEntriesFrom(file, pos, 0, U32LE(fpt_buffer, 4), <<>>)
             IN  [outcome |-> r.outcome,
                  value   |-> IF r.outcome = "raised" \/ Len(r.list) = 0
                              THEN None ELSE ListOf(r.list),
                  pos     |-> r.pos]

\* n bytes 0
Zeros(n) == [i \in 1..n |-> 0]

\* the 32 bytes of an FPT header: the marker, the number of entries, the rest
FptHeaderBytes(marker, num_entries) ==
    marker \o <<num_entries % 256, num_entries \div 256, 0, 0>> \o <<32, 16>> \o Zeros(22)

\* the 32 bytes of an FPT entry: name (4), owner (4), offset (4), size (4), reserved
\* (12), flags (4)
FptEntryBytes(name, offset4, size4, flags4) ==
    name \o Zeros(4) \o offset4 \o size4 \o Zeros(12) \o flags4

\* the markers of the headers read: '$FPT', '$FPX', four bytes 0xFF (erased flash),
\* four bytes 0, and 'é' (0xC3 0xA9) followed by 'PT'
FptMarkers ==
    { FPT_MAGIC, <<36, 70, 80, 88>>, <<255, 255, 255, 255>>, <<0, 0, 0, 0>>,
      <<195, 169, 80, 84>> }

\* the entries of the tables read: two code partitions (FTPR; NFT with bit 7 of the
\* flags set), a partition of type 1, one marked invalid, and a code partition
\* whose top flags byte is 0x7F
FptEntryVals ==
    { FptEntryBytes(<<70, 84, 80, 82>>, <<0, 16, 0, 0>>, <<0, 0, 1, 0>>, <<0, 0, 0, 0>>),
      FptEntryBytes(<<78, 70, 84, 0>>, <<0, 32, 0, 0>>, <<0, 64, 2, 0>>, <<128, 1, 0, 0>>),
      FptEntryBytes(<<77, 70, 83, 32>>, <<0, 48, 0, 0>>, <<0, 0, 4, 0>>, <<1, 0, 0, 0>>),
      FptEntryBytes(<<76, 79, 67, 76>>, <<0, 64, 0, 0>>, <<0, 48, 0, 0>>, <<0, 0, 0, 255>>),
      FptEntryBytes(<<32, 87, 67, 0>>, <<0, 80, 0, 0>>, <<0, 0, 8, 0>>, <<0, 0, 0, 127>>) }

\* the files get_all_cdt is called on: offset bytes of padding, a header that
\* announces n entries, and the n entries
FptFiles(offset) ==
    UNION { { Zeros(offset) \o FptHeaderBytes(marker, n) \o Flatten(es) :
                marker \in FptMarkers, es \in [1..n -> FptEntryVals] } :
            n \in 0..MaxFptEntries }

FptOffsets == {0, 16}

\* get_all_cdt is called
InitFpt ==
    /\ offset_of_fpt \in FptOffsets
    /\ fpt_file \in FptFiles(offset_of_fpt)
    /\ fpt_file_pos = 0
    /\ code_partitions = None
    /\ fpt_pc = "call"
    /\ huffman_table = ClearedTable.table
    /\ longest_huffman_code_in_bits = ClearedTable.longest
    /\ shortest_huffman_code_in_bits = ClearedTable.shortest
    /\ DecoderIdle
    /\ LutIdle
    /\ TableIdle
    /\ ScanIdle
    /\ CpdIdle
    /\ DrvIdle

\* lines 169-217: the call, to its return or to the exception it raises
GetAllCdtCall ==
    /\ fpt_pc = "call"
    /\ LET r == GetAllCdt(fpt_file, offset_of_fpt)
       IN  /\ fpt_pc' = IF r.outcome = "raised" THEN "raised" ELSE "done"
           /\ code_partitions' = r.value
           /\ fpt_file_pos' = r.pos
    /\ UNCHANGED <<fpt_file, offset_of_fpt, othersOfFpt>>

NextFpt == GetAllCdtCall

SpecFpt == InitFpt /\ [][NextFpt]_vars

-----------------------------------------------------------------------------
(* get_code_objects_in_code_partition and                                   *)
(* get_huffman_compressed_code_objects_in_code_partition.                   *)

\* CodeObjectEntry.__init__
CodeObjectEntry(in_partition, rel_offset_of_data_in_partition, size, name, is_huffman_compressed) ==
    [in_partition |-> in_partition,
     rel_offset_of_data_in_partition |-> rel_offset_of_data_in_partition,
     size |-> size, name |-> name, is_huffman_compressed |-> is_huffman_compressed]

\* file.read(n) of a buffered binary file, at cursor pos: n bytes or as many as there
\* are for n >= 0, all that is left for n = -1, ValueError for n < -1
BufferedRead(file, pos, n) ==
    IF n < -1 THEN [ok |-> FALSE, data |-> <<>>]
    ELSE IF n = -1 THEN [ok |-> TRUE, data |-> StreamRead(file, pos, Len(file))]
    ELSE [ok |-> TRUE, data |-> StreamRead(file, pos, n)]

\* rel_offset_of_code_object = raw_u32 & 0x1FFFFFF, of the little-endian u32 at byte
\* 12 of the entry: bytes 12..14 and bit 0 of byte 15
RelOffsetOf(entry_bytes) ==
    entry_bytes[13] + 256 * entry_bytes[14] + 65536 * entry_bytes[15]
        + 16777216 * (entry_bytes[16] % 2)

\* [the flag is taken from bit 24]
IsHuffmanCompressed_Bit24(entry_bytes) == entry_bytes[16] % 2 = 1

\* is_huffman_compressed = (raw_u32 & 0x2000000) != 0: bit 1 of byte 15
IsHuffmanCompressed(entry_bytes) == (entry_bytes[16] \div 2) % 2 = 1

\* lines 302-330: the loop over the entries, from entry index on, reading at cursor
\* pos; the list so far is acc
RECURSIVE CpdEntriesFrom(_, _, _, _, _, _)
CpdEntriesFrom(file, pos, index, num_code_objects, desc, acc) ==
    IF index >= num_code_objects
    THEN [outcome |-> "returned", list |-> acc, pos |-> pos]
    ELSE LET entry_bytes   == StreamRead(file, pos, 24)
             next          == pos + Len(entry_bytes)
             code_obj_name == string_from_buffer(entry_bytes, 12, 0)
         IN  IF ~code_obj_name.ok \/ Len(entry_bytes) < 20
             THEN [outcome |-> "raised", list |-> acc, pos |-> next]
             ELSE CpdEntriesFrom(file, next, index + 1, num_code_objects, desc,
                      Append(acc, CodeObjectEntry(desc, RelOffsetOf(entry_bytes),
                                                  U32LE(entry_bytes, 16),
                                                  StripName(code_obj_name.chars),
                                                  IsHuffmanCompressed(entry_bytes))))

\* get_code_objects_in_code_partition(from_opened_file, code_partition_desc): how the
\* call ends, the value it returns and where it leaves the cursor
GetCodeObjects(file, desc) ==
    LET start      == desc.offset_of_cdt_header
        cpd_header == StreamRead(file, start, 11)
        pos11      == start + Len(cpd_header)
    IN  IF Len(cpd_header) < 11 THEN [outcome |-> "raised", value |-> None, pos |-> pos11]
        ELSE LET header_length == cpd_header[11]
                 rest          == BufferedRead(file, pos11, header_length - 11)
                 pos           == pos11 + Len(rest.data)
             IN  IF ~rest.ok THEN [outcome |-> "raised", value |-> None, pos |-> pos11]
                 ELSE LET r == CpdEntriesFrom(file, pos, 0, U32LE(cpd_header, 4), desc, <<>>)
                      IN  [outcome |-> r.outcome,
                           value   |-> IF r.outcome = "raised" \/ Len(r.list) = 0
                                       THEN None ELSE ListOf(r.list),
                           pos     |-> r.pos]

\* del code_objects[index] (index counts from 0)
DeleteAt(list, index) ==
    SubSeq(list, 1, index) \o SubSeq(list, index + 2, Len(list))

\* [the index moves on after a deletion too]
RECURSIVE HuffmanFilterFrom_AlwaysAdvances(_, _)
HuffmanFilterFrom_AlwaysAdvances(list, index) ==
    IF index >= Len(list) THEN list
    ELSE IF ~list[index + 1].is_huffman_compressed
         THEN HuffmanFilterFrom_AlwaysAdvances(DeleteAt(list, index), index + 1)
         ELSE HuffmanFilterFrom_AlwaysAdvances(list, index + 1)

\* lines 359-364: the loop that deletes, from index on
RECURSIVE HuffmanFilterFrom(_, _)
HuffmanFilterFrom(list, index) ==
    IF index >= Len(list) THEN list
    ELSE IF ~list[index + 1].is_huffman_compressed
         THEN HuffmanFilterFrom(DeleteAt(list, index), index)
         ELSE HuffmanFilterFrom(list, index + 1)

\* get_huffman_compressed_code_objects_in_code_partition
GetHuffmanCodeObjects(file, desc) ==
    LET r == GetCodeObjects(file, desc)
    IN  IF r.outcome = "raised" \/ r.value.is_none THEN r
        ELSE [outcome |-> "returned",
              value   |-> ListOf(HuffmanFilterFrom(r.value.list, 0)),
              pos     |-> r.pos]

\* the bytes of a CPD header of header_length bytes (of 11 when header_length is
\* less): marker '$CPD', number of entries, two versions, header_length, the rest
CpdHeaderBytes(num_entries, header_length) ==
    <<36, 67, 80, 68>> \o <<num_entries % 256, num_entries \div 256, 0, 0>>
        \o <<1, 1, header_length>>
        \o Zeros(IF header_length > 11 THEN header_length - 11 ELSE 0)

\* the 24 bytes of a CPD entry: name (12), the packed u32 (4), size (4), reserved (4)
CpdEntryBytes(name, packed4, size4) == name \o packed4 \o size4 \o Zeros(4)

\* the entries of the directories read; the packed words are 0x02000040 (offset
\* 0x40, Huffman), 0x01000180 (bit 24 set, not Huffman), 0xFE000010 (reserved bits
\* set, Huffman) and 0xFD000200 (reserved bits and bit 24 set, not Huffman)
CpdEntryVals ==
    { CpdEntryBytes(<<107, 101, 114, 110, 101, 108, 0, 0, 0, 0, 0, 0>>,
                    <<64, 0, 0, 2>>, <<0, 32, 0, 0>>),
      CpdEntryBytes(<<98, 117, 112, 0, 0, 0, 0, 0, 0, 0, 0, 0>>,
                    <<128, 1, 0, 1>>, <<100, 0, 0, 0>>),
      CpdEntryBytes(<<115, 121, 115, 108, 105, 98, 32, 0, 0, 0, 0, 0>>,
                    <<16, 0, 0, 254>>, <<0, 16, 0, 0>>),
      CpdEntryBytes(<<32, 109, 97, 110, 105, 102, 101, 115, 116, 0, 0, 0>>,
                    <<0, 2, 0, 253>>, <<44, 1, 0, 0>>) }

\* the header lengths of the directories read: the two of the format, the least
\* that holds the 11 bytes read first, and two that are less
CpdHeaderLengths == {16, 20, 11, 10, 5}

CpdFiles(offset) ==
    UNION { { Zeros(offset) \o CpdHeaderBytes(n, hl) \o Flatten(es) :
                hl \in CpdHeaderLengths, es \in [1..n -> CpdEntryVals] } :
            n \in 0..MaxCpdEntries }

CpdOffsets == {0, 8}

\* the readers are called on a code partition
InitCpd ==
    /\ \E offset \in CpdOffsets :
          /\ code_partition_desc = CodePartitionDescriptor(offset, 4096, <<70, 84, 80, 82>>)
          /\ cpd_file \in CpdFiles(offset)
    /\ cpd_file_pos = 0
    /\ code_objects = None
    /\ huffman_code_objects = None
    /\ cpd_pc = "call"
    /\ huffman_table = ClearedTable.table
    /\ longest_huffman_code_in_bits = ClearedTable.longest
    /\ shortest_huffman_code_in_bits = ClearedTable.shortest
    /\ DecoderIdle
    /\ LutIdle
    /\ TableIdle
    /\ ScanIdle
    /\ FptIdle
    /\ DrvIdle

\* lines 289-332: get_code_objects_in_code_partition, to its return or its exception
GetCodeObjectsCall ==
    /\ cpd_pc = "call"
    /\ LET r == GetCodeObjects(cpd_file, code_partition_desc)
       IN  /\ cpd_pc' = IF r.outcome = "raised" THEN "raised" ELSE "listed"
           /\ code_objects' = r.value
           /\ cpd_file_pos' = r.pos
    /\ UNCHANGED <<cpd_file, code_partition_desc, huffman_code_objects, othersOfCpd>>

\* lines 356-370: the Huffman-only wrapper, called on the same partition
GetHuffmanCodeObjectsCall ==
    /\ cpd_pc = "listed"
    /\ LET r == GetHuffmanCodeObjects(cpd_file, code_partition_desc)
       IN  /\ cpd_pc' = IF r.outcome = "raised" THEN "raised" ELSE "done"
           /\ huffman_code_objects' = r.value
           /\ cpd_file_pos' = r.pos
    /\ UNCHANGED <<cpd_file, code_partition_desc, code_objects, othersOfCpd>>

NextCpd == GetCodeObjectsCall \/ GetHuffmanCodeObjectsCall

SpecCpd == InitCpd /\ [][NextCpd]_vars

-----------------------------------------------------------------------------
(* main_run_for_packaged_compressed_file_input: the driver that walks the    *)
(* FPT, the code partitions and their Huffman-compressed code objects, and   *)
(* decodes the pages of each with decode_page_from_input_file_i.             *)

\* read_lut as a function of the file: the loop from cursor at on, with done bytes
\* of total counted and the list lut built (entry_index is its length)
RECURSIVE ReadLutFrom(_, _, _, _, _, _)
ReadLutFrom(file, at, done, total, reverse, lut) ==
    IF ~(done < total) THEN [outcome |-> "returned", lut |-> lut, pos |-> at]
    ELSE LET rawdata == StreamRead(file, at, 4)
             sel_at  == LutByteIndex(0, reverse) + 1
         IN  IF Len(rawdata) < 4
             THEN IF sel_at <= Len(rawdata)
                       /\ SelectorInvalid(HuffmanSelectorBits(rawdata[sel_at]))
                  THEN ReadLutFrom(file, at + Len(rawdata), done + 4, total, reverse, lut)
                  ELSE [outcome |-> "raised", lut |-> lut, pos |-> at + Len(rawdata)]
             ELSE LET huffman_selector == HuffmanSelectorBits(rawdata[sel_at])
                  IN  IF SelectorInvalid(huffman_selector)
                      THEN ReadLutFrom(file, at + 4, done + 4, total, reverse, lut)
                      ELSE ReadLutFrom(file, at + 4, done + 4, total, reverse,
                               AppendLutEntry(lut, Len(lut),
                                              LUTentry(LutOffset(rawdata, reverse),
                                                       SelectorOf(huffman_selector))))

\* the absolute position the LUT of a code object is read from
LutStartOf(entry) ==
    entry.in_partition.offset_of_cdt_header + entry.rel_offset_of_data_in_partition

\* read_lut_of_code_object(from_opened_input_file, target_code_object_entry), the
\* cursor being at pos: None for an object that is not Huffman compressed, else the
\* LUT of int(size / 4096) words read in reversed byte order from LutStartOf
ReadLutOfCodeObject(file, pos, entry) ==
    IF ~entry.is_huffman_compressed
    THEN [outcome |-> "returned", is_none |-> TRUE, lut |-> <<>>, pos |-> pos]
    ELSE LET r == ReadLutFrom(file, LutStartOf(entry), 0,
                              (entry.size \div HUFFMAN_PAGE_DECODED_SIZE_MAX) * 4, TRUE, <<>>)
         IN  [outcome |-> r.outcome, is_none |-> FALSE, lut |-> r.lut, pos |-> r.pos]

\* subdir_fqpn + code_object_entry.name + ".decoded", as the pair of the names
OutputPath(partition, entry) == <<partition.name, entry.name>>

\* key in dict, and dict[key], of a dict held as the sequence of its <<key, value>>
HasKey(dict, key) == \E i \in 1..Len(dict) : dict[i][1] = key

ValueAt(dict, key) == dict[CHOOSE i \in 1..Len(dict) : dict[i][1] = key][2]

\* dict[key] = value
WithKey(dict, key, value) ==
    IF HasKey(dict, key)
    THEN [i \in 1..Len(dict) |-> IF dict[i][1] = key THEN <<key, value>> ELSE dict[i]]
    ELSE Append(dict, <<key, value>>)

\* extract_only_objects_named and (name not in extract_only_objects_named)
SkippedByName(names, name) ==
    names # <<>> /\ ~(\E i \in 1..Len(names) : names[i] = name)

\* [a negative result does not end the loop]
PageAborts_Never(value) == FALSE

\* if decode_result < 0: break
PageAborts(value) == value < 0

\* [every object decoded is noted, whatever its last result]
IsRecorded_Always(value) == TRUE

\* if decode_result >= 0: decoded_binaries_by_abs_offset[...] = ...
IsRecorded(value) == value >= 0

\* the decoder's variables the driver's own steps leave alone
tableAndFactor == <<huffman_table, longest_huffman_code_in_bits,
                    shortest_huffman_code_in_bits, topoff_factor, first_outp, first_result, first_matched, first_read_position>>

decoderLocals == <<pc, read_position, write_position, matched, bitbuffer_topoff_level,
                   end_page_position, in_data, valid_bits_in_bitbuffer, bitbuffer, result>>

decoderStreams == <<lut_entry_for_page, outp, outp_pos, offset_into_output, call>>

othersOfDrv == <<lutVars, tblVars, scanVars, fptVars, cpdVars>>

\* lines 590-604: the FPT is looked for when no location is given; line 604 reads
\* found_first_fpt_start, which is not bound when a location was given
DrvLocateFpt ==
    /\ drv_pc = "start"
    /\ IF file_table_location < 0
       THEN LET r == FindFpt(inp_data, 0)
            IN  IF r.outcome = "raised"
                THEN drv_pc' = "raised" /\ UNCHANGED file_table_location
                ELSE IF r.value = <<>>
                THEN drv_pc' = "returned" /\ UNCHANGED file_table_location
                ELSE drv_pc' = "cdt" /\ file_table_location' = r.value[1]
       ELSE drv_pc' = "raised" /\ UNCHANGED file_table_location
    /\ UNCHANGED <<inp_data, inp_pos, extract_only_objects_named, code_partition_descriptors,
                   partition_index, code_object_entries, object_index, code_object_lut,
                   page_index, code_object_position_start, output_write_position,
                   decode_result, decoded_binaries_by_abs_offset, output_files, aliases,
                   page_log, tableAndFactor, decoderLocals, decoderStreams, othersOfDrv>>

\* lines 611-617: the code partitions are listed
DrvGetAllCdt ==
    /\ drv_pc = "cdt"
    /\ LET r == GetAllCdt(inp_data, file_table_location)
       IN  /\ inp_pos' = r.pos
           /\ IF r.outcome = "raised"
              THEN drv_pc' = "raised" /\ UNCHANGED code_partition_descriptors
              ELSE IF r.value.is_none
              THEN drv_pc' = "returned" /\ UNCHANGED code_partition_descriptors
              ELSE drv_pc' = "partition" /\ code_partition_descriptors' = r.value.list
    /\ partition_index' = 0
    /\ decoded_binaries_by_abs_offset' = <<>>
    /\ UNCHANGED <<inp_data, file_table_location, extract_only_objects_named,
                   code_object_entries, object_index, code_object_lut,
                   page_index, code_object_position_start, output_write_position,
                   decode_result, output_files, aliases,
                   page_log, tableAndFactor, decoderLocals, decoderStreams, othersOfDrv>>

\* [a partition without code objects is passed over]
OnNoObjects_SkipsPartition(index) == [drv_pc |-> "partition", partition_index |-> index + 1]

\* if code_object_entries is None: print(".. Exiting"); return
OnNoObjects(index) == [drv_pc |-> "returned", partition_index |-> index]

\* lines 618-626: the next partition; its Huffman-compressed objects are listed, and
\* the run returns when there is none
DrvPartition ==
    /\ drv_pc = "partition"
    /\ partition_index < Len(code_partition_descriptors)
    /\ LET r == GetHuffmanCodeObjects(inp_data, code_partition_descriptors[partition_index + 1])
       IN  /\ inp_pos' = r.pos
           /\ IF r.outcome = "raised"
              THEN drv_pc' = "raised" /\ UNCHANGED <<code_object_entries, partition_index>>
              ELSE IF r.value.is_none
              THEN /\ drv_pc' = OnNoObjects(partition_index).drv_pc
                   /\ partition_index' = OnNoObjects(partition_index).partition_index
                   /\ UNCHANGED code_object_entries
              ELSE /\ drv_pc' = "object"
                   /\ code_object_entries' = r.value.list
                   /\ UNCHANGED partition_index
    /\ object_index' = 0
    /\ UNCHANGED <<inp_data, file_table_location, extract_only_objects_named,
                   code_partition_descriptors, code_object_lut,
                   page_index, code_object_position_start, output_write_position,
                   decode_result, decoded_binaries_by_abs_offset, output_files, aliases,
                   page_log, tableAndFactor, decoderLocals, decoderStreams, othersOfDrv>>

\* lines 618, 681: no partition is left; the input is closed
DrvFinish ==
    /\ drv_pc = "partition"
    /\ ~(partition_index < Len(code_partition_descriptors))
    /\ drv_pc' = "returned"
    /\ UNCHANGED <<inp_data, inp_pos, file_table_location, extract_only_objects_named,
                   code_partition_descriptors, partition_index, code_object_entries,
                   object_index, code_object_lut,
                   page_index, code_object_position_start, output_write_position,
                   decode_result, decoded_binaries_by_abs_offset, output_files, aliases,
                   page_log, tableAndFactor, decoderLocals, decoderStreams, othersOfDrv>>

\* lines 628-659: the next code object: its LUT is read, it is skipped by name, or
\* noted as an alias of an output already made, or its output is opened
DrvObject ==
    /\ drv_pc = "object"
    /\ object_index < Len(code_object_entries)
    /\ LET partition == code_partition_descriptors[partition_index + 1]
           entry     == code_object_entries[object_index + 1]
           r         == ReadLutOfCodeObject(inp_data, inp_pos, entry)
           path      == OutputPath(partition, entry)
       IN  /\ inp_pos' = r.pos
           /\ IF r.outcome = "raised"
              THEN /\ drv_pc' = "raised"
                   /\ UNCHANGED <<object_index, code_object_lut, code_object_position_start,
                                  output_write_position, decode_result, page_index,
                                  aliases, output_files, outp, outp_pos>>
              ELSE IF SkippedByName(extract_only_objects_named, entry.name)
              THEN /\ drv_pc' = "object"
                   /\ object_index' = object_index + 1
                   /\ code_object_lut' = r.lut
                   /\ UNCHANGED <<code_object_position_start, output_write_position,
                                  decode_result, page_index, aliases, output_files,
                                  outp, outp_pos>>
              ELSE IF HasKey(decoded_binaries_by_abs_offset, r.pos)
              THEN /\ drv_pc' = "object"
                   /\ object_index' = object_index + 1
                   /\ code_object_lut' = r.lut
                   /\ code_object_position_start' = r.pos
                   /\ output_write_position' = 0
                   /\ aliases' = Append(aliases,
                                   <<path, ValueAt(decoded_binaries_by_abs_offset, r.pos)>>)
                   /\ UNCHANGED <<decode_result, page_index, output_files, outp, outp_pos>>
              ELSE IF r.is_none
              THEN /\ drv_pc' = "raised"           \* enumerate(None)
                   /\ code_object_lut' = r.lut
                   /\ code_object_position_start' = r.pos
                   /\ output_write_position' = 0
                   /\ decode_result' = 0
                   /\ output_files' = WithKey(output_files, path, <<>>)
                   /\ outp' = <<>>
                   /\ outp_pos' = 0
                   /\ UNCHANGED <<object_index, page_index, aliases>>
              ELSE /\ drv_pc' = "page"
                   /\ code_object_lut' = r.lut
                   /\ code_object_position_start' = r.pos
                   /\ output_write_position' = 0
                   /\ decode_result' = 0
                   /\ page_index' = 0
                   /\ output_files' = WithKey(output_files, path, <<>>)   \* open(.., "wb")
                   /\ outp' = <<>>
                   /\ outp_pos' = 0
                   /\ UNCHANGED <<object_index, aliases>>
    /\ UNCHANGED <<inp_data, file_table_location, extract_only_objects_named,
                   code_partition_descriptors, partition_index, code_object_entries,
                   decoded_binaries_by_abs_offset, page_log, tableAndFactor, decoderLocals,
                   lut_entry_for_page, offset_into_output, call, othersOfDrv>>

\* lines 628, 680: no code object is left in the partition
DrvLeavePartition ==
    /\ drv_pc = "object"
    /\ ~(object_index < Len(code_object_entries))
    /\ partition_index' = partition_index + 1
    /\ drv_pc' = "partition"
    /\ UNCHANGED <<inp_data, inp_pos, file_table_location, extract_only_objects_named,
                   code_partition_descriptors, code_object_entries,
                   object_index, code_object_lut,
                   page_index, code_object_position_start, output_write_position,
                   decode_result, decoded_binaries_by_abs_offset, output_files, aliases,
                   page_log, tableAndFactor, decoderLocals, decoderStreams, othersOfDrv>>

\* [the input is left where the last call left it]
PageSeek_StaysPut(base, cursor) == cursor

\* file_input.seek(code_object_position_start, os.SEEK_SET): the cursor after it
PageSeek(base, cursor) == base

\* lines 660-666: the next page: the input is put at code_object_position_start and
\* decode_page_from_input_file_i is called
DrvPage ==
    /\ drv_pc = "page"
    /\ page_index < Len(code_object_lut)
    /\ inp_pos' = PageSeek(code_object_position_start, inp_pos)
    /\ lut_entry_for_page' = code_object_lut[page_index + 1]
    /\ offset_into_output' = output_write_position
    /\ call' = 1
    /\ pc' = "start"
    /\ read_position' = 0
    /\ write_position' = 0
    /\ matched' = <<>>
    /\ bitbuffer_topoff_level' = 0
    /\ end_page_position' = 0
    /\ in_data' = <<>>
    /\ valid_bits_in_bitbuffer' = 0
    /\ bitbuffer' = <<>>
    /\ result' = 0
    /\ drv_pc' = "decoding"
    /\ UNCHANGED <<inp_data, outp, outp_pos, file_table_location, extract_only_objects_named,
                   code_partition_descriptors, partition_index, code_object_entries,
                   object_index, code_object_lut,
                   page_index, code_object_position_start, output_write_position,
                   decode_result, decoded_binaries_by_abs_offset, output_files, aliases,
                   page_log, tableAndFactor, othersOfDrv>>

\* [the result of the page replaces the write position]
Advance_Restarts(at, value) == value

\* output_write_position += decode_result
Advance(at, value) == at + value

\* lines 665-670: the page decoder returned
DrvPageReturned ==
    /\ drv_pc = "decoding"
    /\ pc = "done"
    /\ decode_result' = result
    /\ page_log' = Append(page_log,
                     [partition |-> partition_index, object |-> object_index,
                      page |-> page_index,
                      base |-> LutStartOf(code_object_entries[object_index + 1]),
                      result |-> result, written |-> outp])
    /\ IF PageAborts(result)
       THEN /\ drv_pc' = "close"
            /\ UNCHANGED <<output_write_position, page_index>>
       ELSE /\ drv_pc' = "page"
            /\ output_write_position' = Advance(output_write_position, result)
            /\ page_index' = page_index + 1
    /\ UNCHANGED <<inp_data, inp_pos, file_table_location, extract_only_objects_named,
                   code_partition_descriptors, partition_index, code_object_entries,
                   object_index, code_object_lut, code_object_position_start,
                   decoded_binaries_by_abs_offset, output_files, aliases,
                   tableAndFactor, decoderLocals, decoderStreams, othersOfDrv>>

\* lines 660, 671-678: the loop over the pages is over, by its end or by the break:
\* the output is closed and, after a last result that is not negative, noted
DrvCloseOutput ==
    /\ \/ drv_pc = "close"
       \/ drv_pc = "page" /\ ~(page_index < Len(code_object_lut))
    /\ LET path == OutputPath(code_partition_descriptors[partition_index + 1],
                              code_object_entries[object_index + 1])
       IN  /\ output_files' = WithKey(output_files, path, outp)
           /\ decoded_binaries_by_abs_offset' =
                 IF IsRecorded(decode_result)
                 THEN WithKey(decoded_binaries_by_abs_offset, code_object_position_start, path)
                 ELSE decoded_binaries_by_abs_offset
    /\ object_index' = object_index + 1
    /\ drv_pc' = "object"
    /\ UNCHANGED <<inp_data, inp_pos, file_table_location, extract_only_objects_named,
                   code_partition_descriptors, partition_index, code_object_entries,
                   code_object_lut, page_index, code_object_position_start,
                   output_write_position, decode_result, aliases,
                   page_log, tableAndFactor, decoderLocals, decoderStreams, othersOfDrv>>

\* The images the driver is run on. Each holds an FPT at 0 with one or two code
\* partitions P1 and P2, their directories with 16-byte headers, and the bodies of
\* the code objects, each a LUT in reversed byte order followed by its pages, for
\* the table "long" (byte 0x00 decodes to 2048 bytes, 0xFF is no code):
\*   BodyG: one page, which decodes to 4096 bytes;
\*   BodyT: two pages of 3 and 2 bytes, which decode to 2048 and to 4096 bytes;
\*   BodyW: three pages, the second of which starts with 0xFF.
BodyG == <<0, 0, 0, 64>> \o <<0, 0>>

BodyT == <<0, 0, 0, 64>> \o <<3, 0, 0, 192>> \o <<0, 176, 0>> \o <<0, 0>>

BodyW == <<0, 0, 0, 64>> \o <<3, 0, 0, 64>> \o <<6, 0, 0, 64>>
            \o <<0, 0, 0>> \o <<255, 0, 0>> \o <<0, 0>>

\* the kinds of code object of the images: G, T and W are the three bodies with
\* their numbers of pages; G2 is BodyG with a size of two pages; N is not Huffman
\* compressed
DrvKinds == {"G", "G2", "T", "W", "N"}

\* where the directories and the bodies stand
CpdRoom == 16 + 24 * MaxDrvObjects

CpdAt(i) == 96 + (i - 1) * CpdRoom

BodiesAt == 96 + 2 * CpdRoom

KindStart(kind) ==
    BodiesAt + (CASE kind = "T" -> Len(BodyG)
                  [] kind = "W" -> Len(BodyG) + Len(BodyT)
                  [] OTHER -> 0)

KindPages(kind) ==
    CASE kind = "G" -> 1 [] kind = "G2" -> 2 [] kind = "T" -> 2 [] kind = "W" -> 3
      [] OTHER -> 1

\* the name of the j-th object of a directory: 'o1', 'o2', ...
ObjectName(j) == <<111, 48 + j>>

\* the directory entry of the j-th object of partition i, of a kind
DrvEntryBytes(i, j, kind) ==
    LET rel == KindStart(kind) - CpdAt(i)
    IN  CpdEntryBytes(ObjectName(j) \o Zeros(10),
                      <<rel % 256, rel \div 256, 0, IF kind = "N" THEN 0 ELSE 2>>,
                      <<0, 16 * KindPages(kind), 0, 0>>)

\* the directory of partition i with the objects of the kinds given, in its room
DrvDirectoryBytes(i, kinds) ==
    CpdHeaderBytes(Len(kinds), 16)
        \o Flatten([j \in 1..Len(kinds) |-> DrvEntryBytes(i, j, kinds[j])])
        \o Zeros(24 * (MaxDrvObjects - Len(kinds)))

\* the FPT entry of partition i: 'P1' or 'P2', a code partition
DrvFptEntryBytes(i) ==
    FptEntryBytes(<<80, 48 + i, 0, 0>>, <<CpdAt(i), 0, 0, 0>>, <<0, 16, 0, 0>>, <<0, 0, 0, 0>>)

\* the image with the partitions whose objects' kinds are given
DrvImage(parts) ==
    FptHeaderBytes(FPT_MAGIC, Len(parts))
        \o Flatten([i \in 1..2 |-> IF i <= Len(parts) THEN DrvFptEntryBytes(i) ELSE Zeros(32)])
        \o Flatten([i \in 1..2 |-> IF i <= Len(parts) THEN DrvDirectoryBytes(i, parts[i])
                                   ELSE Zeros(CpdRoom)])
        \o BodyG \o BodyT \o BodyW

\* the first partition has up to MaxDrvObjects objects; the second, when there is
\* one, has none or one
DrvParts ==
    LET firsts  == UNION {[1..n -> DrvKinds] : n \in 0..MaxDrvObjects}
        seconds == UNION {[1..n -> DrvKinds] : n \in 0..1}
    IN  {<<k1>> : k1 \in firsts} \cup {<<k1, k2>> : k1 \in firsts, k2 \in seconds}

\* the images, and one without '$FPT'
DrvImages == {DrvImage(parts) : parts \in DrvParts} \cup {Zeros(8)}

\* the values of extract_only_objects_named: None, and the list of 'o1'
DrvNameFilters == {<<>>, <<ObjectName(1)>>}

\* the values of file_table_location: the default, and the position of the FPT
DrvLocations == {-1, 0}

\* The table "long" is loaded and main_run_for_packaged_compressed_file_input is
\* called on an opened image.
InitDriver ==
    /\ LET cb == LoadTableRows(ClearedTable, TableRows("long"))
       IN  /\ huffman_table = cb.table
           /\ longest_huffman_code_in_bits = cb.longest
           /\ shortest_huffman_code_in_bits = cb.shortest
    /\ inp_data \in DrvImages
    /\ inp_pos = 0
    /\ lut_entry_for_page = LUTentry(0, 0)
    /\ outp = <<>>
    /\ outp_pos = 0
    /\ offset_into_output = 0
    /\ topoff_factor = TOPOFF_FACTOR
    /\ LocalsAtCall
    /\ call = 0
    /\ first_outp = <<>>
    /\ first_result = 0
    /\ first_matched = <<>>
    /\ first_read_position = 0
    /\ LutIdle
    /\ TableIdle
    /\ ScanIdle
    /\ FptIdle
    /\ CpdIdle
    /\ file_table_location \in DrvLocations
    /\ extract_only_objects_named \in DrvNameFilters
    /\ code_partition_descriptors = <<>>
    /\ partition_index = 0
    /\ code_object_entries = <<>>
    /\ object_index = 0
    /\ code_object_lut = <<>>
    /\ page_index = 0
    /\ code_object_position_start = 0
    /\ output_write_position = 0
    /\ decode_result = 0
    /\ decoded_binaries_by_abs_offset = <<>>
    /\ drv_pc = "start"
    /\ output_files = <<>>
    /\ aliases = <<>>
    /\ page_log = <<>>

NextDriver ==
    \/ DrvLocateFpt
    \/ DrvGetAllCdt
    \/ DrvPartition
    \/ DrvFinish
    \/ DrvObject
    \/ DrvLeavePartition
    \/ DrvPage
    \/ DecodeStep
    \/ DrvPageReturned
    \/ DrvCloseOutput

SpecDriver == InitDriver /\ [][NextDriver]_vars

-----------------------------------------------------------------------------
(* The readers on input that ends early: get_all_cdt,                        *)
(* get_code_objects_in_code_partition and read_lut are called on the leading *)
(* bytes of a well-formed FPT, code partition directory and LUT.             *)

\* an FPT with one code partition, and a directory with one Huffman code object
FullFpt ==
    FptHeaderBytes(FPT_MAGIC, 1)
        \o FptEntryBytes(<<70, 84, 80, 82>>, <<0, 16, 0, 0>>, <<0, 0, 1, 0>>, <<0, 0, 0, 0>>)

FullCpd ==
    CpdHeaderBytes(1, 16)
        \o CpdEntryBytes(<<107, 101, 114, 110, 101, 108, 0, 0, 0, 0, 0, 0>>,
                         <<64, 0, 0, 2>>, <<0, 32, 0, 0>>)

\* the first n bytes of a file
FirstBytes(file, n) == SubSeq(file, 1, n)

\* get_all_cdt is called on the leading bytes of the FPT
InitFptCut ==
    /\ \E n \in 0..Len(FullFpt) : fpt_file = FirstBytes(FullFpt, n)
    /\ offset_of_fpt = 0
    /\ fpt_file_pos = 0
    /\ code_partitions = None
    /\ fpt_pc = "call"
    /\ huffman_table = ClearedTable.table
    /\ longest_huffman_code_in_bits = ClearedTable.longest
    /\ shortest_huffman_code_in_bits = ClearedTable.shortest
    /\ DecoderIdle
    /\ LutIdle
    /\ TableIdle
    /\ ScanIdle
    /\ CpdIdle
    /\ DrvIdle

\* the code-directory readers are called on the leading bytes of the directory
InitCpdCut ==
    /\ \E n \in 0..Len(FullCpd) : cpd_file = FirstBytes(FullCpd, n)
    /\ code_partition_desc = CodePartitionDescriptor(0, 4096, <<70, 84, 80, 82>>)
    /\ cpd_file_pos = 0
    /\ code_objects = None
    /\ huffman_code_objects = None
    /\ cpd_pc = "call"
    /\ huffman_table = ClearedTable.table
    /\ longest_huffman_code_in_bits = ClearedTable.longest
    /\ shortest_huffman_code_in_bits = ClearedTable.shortest
    /\ DecoderIdle
    /\ LutIdle
    /\ TableIdle
    /\ ScanIdle
    /\ FptIdle
    /\ DrvIdle

InitCut == InitFptCut \/ InitCpdCut \/ InitLut

NextCut == NextFpt \/ NextCpd \/ NextLut

SpecCut == InitCut /\ [][NextCut]_vars

-----------------------------------------------------------------------------
(* Properties of the page decoder *)

\* k is a proper or improper prefix of b
IsPrefix(k, b) == Len(k) <= Len(b) /\ SubSeq(b, 1, Len(k)) = k

\* no code of the table is a prefix of another
PrefixFree(table) ==
    \A k1 \in DOMAIN table : \A k2 \in DOMAIN table : (k1 # k2) => ~IsPrefix(k1, k2)

\* the codes of the table that the bits b begin with
CodesAtHead(table, b) == {k \in DOMAIN table : IsPrefix(k, b)}

\* b read as a concatenation of codes of a prefix-free table followed by padding of
\* fewer than min_code_bits bits that stays inside the last byte: the codes in order,
\* and whether b has that form
RECURSIVE CodesOf(_, _, _)
CodesOf(table, shortest, b) ==
    IF CodesAtHead(table, b) = {}
    THEN [ok |-> Len(b) < shortest /\ Len(b) < 8, codes |-> <<>>]
    ELSE LET k    == CHOOSE c \in CodesAtHead(table, b) : TRUE
             rest == CodesOf(table, shortest, SubSeq(b, Len(k) + 1, Len(b)))
         IN  [ok |-> rest.ok, codes |-> <<k>> \o rest.codes]

\* the byte strings of the codes cs in the selected dictionary, one after the other
RECURSIVE DecodedStrings(_, _, _)
DecodedStrings(table, cs, dictionary_selector) ==
    IF cs = <<>> THEN <<>>
    ELSE RunCat(DcodeToWrite(table[Head(cs)], dictionary_selector),
                DecodedStrings(table, Tail(cs), dictionary_selector))

\* the bytes of the page the LUT entry describes, when the input holds them all
PageBytes ==
    SubSeq(inp_data, lut_entry_for_page.offset + 1,
           lut_entry_for_page.offset + lut_entry_for_page.size)

PageParse ==
    CodesOf(huffman_table, shortest_huffman_code_in_bits, BitsOfBytes(PageBytes))

\* Claim C1 as stated: when the table is prefix-free and the page (page_size bytes at
\* compressed_offset, all present in the input) is a concatenation of codes plus
\* padding that decodes to fewer than 4096 bytes, the call returns having written
\* exactly the selected dictionary's strings of those codes, and returns their length.
C1_RoundTrip ==
    ( /\ pc = "done"
      /\ call = 1
      /\ lut_entry_for_page.offset + lut_entry_for_page.size <= Len(inp_data)
      /\ PrefixFree(huffman_table)
      /\ PageParse.ok
      /\ RunLen(DecodedStrings(huffman_table, PageParse.codes,
                               lut_entry_for_page.dictionary_selector))
           < HUFFMAN_PAGE_DECODED_SIZE_MAX )
    => ( /\ outp = DecodedStrings(huffman_table, PageParse.codes,
                                  lut_entry_for_page.dictionary_selector)
         /\ result = RunLen(outp) )

\* Claim C2 as stated: a call that returns a non-negative value returns at most 4096.
C2_PageCap ==
    (pc = "done" /\ result >= 0) => result <= HUFFMAN_PAGE_DECODED_SIZE_MAX

\* Claim C3 as stated: the bytes read so far in a call (read_position: the initial
\* read plus every refill) never exceed the effective page size, which the LUT entry
\* holds from the initial read on.
C3_ReadWithinPage ==
    (pc # "start") => read_position <= lut_entry_for_page.size

\* no key of a length from min(max_code_bits, valid_bits) down to min_code_bits is
\* the head of the bits bb
NoCodeMatches(bb, valid_bits) ==
    \A n \in shortest_huffman_code_in_bits ..
             Min(longest_huffman_code_in_bits, valid_bits) :
        Leading(bb, n) \notin DOMAIN huffman_table

\* Claim C4: a miss at a match step of the loop that reads (input of the page
\* remains) makes the call return a negative value at once, with the output and the
\* count of bytes written left as they were.
C4_MissIsFatal ==
    [][ (pc = "main_match" /\ NoCodeMatches(bitbuffer, valid_bits_in_bitbuffer))
        => ( /\ pc' = "done"
             /\ result' < 0
             /\ outp' = outp
             /\ outp_pos' = outp_pos
             /\ write_position' = write_position ) ]_vars

\* a call has returned a negative value and left output behind
C4_Witness ==
    /\ pc = "done"
    /\ result < 0
    /\ read_position < end_page_position
    /\ outp # <<>>
    /\ RunLen(outp) = write_position

\* Claim C5: in the loop that drains the bitbuffer, a miss writes nothing and leaves
\* fewer than min_code_bits bits, which ends the loop; and every return from that
\* loop returns the bytes written so far, never a negative value.
C5_TailNeverFails ==
    [][ (pc = "tail")
        => ( /\ pc' \in {"tail", "done"}
             /\ (pc' = "done") =>
                    (result' >= 0 /\ result' = write_position' /\ result' = RunLen(outp'))
             /\ ( /\ Len(bitbuffer) >= shortest_huffman_code_in_bits
                  /\ NoCodeMatches(Prune(bitbuffer, valid_bits_in_bitbuffer),
                                   valid_bits_in_bitbuffer) )
                => ( /\ pc' = "tail"
                     /\ Len(bitbuffer') < shortest_huffman_code_in_bits
                     /\ outp' = outp
                     /\ write_position' = write_position ) ) ]_vars

\* the loop that drains is at a miss: input exhausted, output already written, at
\* least min_code_bits valid bits in the bitbuffer and no code at their head
C5_Witness ==
    /\ pc = "tail"
    /\ write_position > 0
    /\ write_position < HUFFMAN_PAGE_DECODED_SIZE_MAX
    /\ valid_bits_in_bitbuffer >= shortest_huffman_code_in_bits
    /\ Len(bitbuffer) >= shortest_huffman_code_in_bits
    /\ NoCodeMatches(Prune(bitbuffer, valid_bits_in_bitbuffer), valid_bits_in_bitbuffer)

\* the input bits a call can still match: those in the bitbuffer, those read and
\* not yet appended, and those of the stream from the cursor on
RemainingInputBits ==
    valid_bits_in_bitbuffer + 8 * Len(in_data)
      + 8 * (IF Len(inp_data) > inp_pos THEN Len(inp_data) - inp_pos ELSE 0)

\* how far a call is from its return: the remaining input bits, then the position
PositionRank ==
    CASE pc = "start"      -> 5
      [] pc = "main"       -> 4
      [] pc = "main_match" -> 3
      [] pc = "tail"       -> IF bitbuffer = <<>> THEN 1 ELSE 2
      [] OTHER             -> 0

Measure == 8 * RemainingInputBits + PositionRank

\* Claim C6: every call returns (the tables loaded have codes of 1 bit or more):
\* every step of a call lowers a measure that never goes below 0, so a call takes
\* only finitely many steps, also when the input ends before the end of the page.
C6_Terminates ==
    [][DecodeStep => (Measure' < Measure /\ Measure' >= 0)]_vars

\* a call has returned although the input ended before the declared end of the page
C6_Witness ==
    /\ pc = "done"
    /\ Len(inp_data) < lut_entry_for_page.offset + lut_entry_for_page.size
    /\ longest_huffman_code_in_bits > 0

\* Claim C7 as stated: the call repeated with another refill level that is at least
\* max_code_bits writes the same output and returns the same value as the first.
C7_RefillLevelIrrelevant ==
    (pc = "done" /\ call = 2) => (outp = first_outp /\ result = first_result)

-----------------------------------------------------------------------------
(* Properties of the LUT reader *)

\* the words read_lut was asked to read
WordsToRead == bytes_of_lut_to_read \div 4

\* the i-th 4-byte word of the stream, its bytes in the order of significance
\* (the byte with the selector bits first)
LutWord(i) ==
    LET w == SubSeq(lut_inp_data, 4 * i - 3, 4 * i)
    IN  IF reverse_byte_ordering THEN <<w[4], w[3], w[2], w[1]>> ELSE w

\* the two selector bits of a word, as a number 0..3 (01 is 1, 11 is 3)
SelectorBitsOf(w) == w[1] \div 64

\* the indexes among i..n of the words whose selector bits are 01 or 11, in order
RECURSIVE ValidWordsFrom(_, _)
ValidWordsFrom(i, n) ==
    IF i > n THEN <<>>
    ELSE (IF SelectorBitsOf(LutWord(i)) \in {1, 3} THEN <<i>> ELSE <<>>)
            \o ValidWordsFrom(i + 1, n)

\* Claim C8: the LUT returned has, in input order, exactly one entry for each word
\* read whose selector bits are 01 (selector 0) or 11 (selector 1), carrying the low
\* 30 bits of that word, and nothing for the other words; the words after an invalid
\* one are parsed like any other.
C8_OneEntryPerValidWord ==
    (lut_pc = "done") =>
        LET valid == ValidWordsFrom(1, WordsToRead)
        IN  /\ Len(local_lut_return_value) = Len(valid)
            /\ \A j \in 1..Len(valid) :
                 LET w == LutWord(valid[j])
                 IN  /\ local_lut_return_value[j].dictionary_selector
                          = (IF SelectorBitsOf(w) = 3 THEN 1 ELSE 0)
                     /\ local_lut_return_value[j].offset
                          = (w[1] % 64) * 16777216 + w[2] * 65536 + w[3] * 256 + w[4]

\* a LUT was returned from a stream with an invalid word that a valid word follows
C8_Witness ==
    /\ lut_pc = "done"
    /\ \E i \in 1..WordsToRead : \E k \in 1..WordsToRead :
          /\ i < k
          /\ SelectorBitsOf(LutWord(i)) \notin {1, 3}
          /\ SelectorBitsOf(LutWord(k)) \in {1, 3}
    /\ local_lut_return_value # <<>>

\* Claim C9: in the LUT returned, every entry but the last has as size the next
\* entry's offset minus its own, and the last entry has size 0.
C9_SizesFromOffsets ==
    (lut_pc = "done" /\ local_lut_return_value # <<>>) =>
        LET lut == local_lut_return_value
        IN  /\ \A j \in 1..(Len(lut) - 1) : lut[j].size = lut[j + 1].offset - lut[j].offset
            /\ lut[Len(lut)].size = 0

\* a LUT of two entries or more was returned from a stream where an invalid word
\* stands between two valid ones
C9_Witness ==
    /\ lut_pc = "done"
    /\ Len(local_lut_return_value) >= 2
    /\ \E i \in 1..WordsToRead : \E k \in 1..WordsToRead : \E m \in 1..WordsToRead :
          /\ i < k /\ k < m
          /\ SelectorBitsOf(LutWord(i)) \in {1, 3}
          /\ SelectorBitsOf(LutWord(k)) \notin {1, 3}
          /\ SelectorBitsOf(LutWord(m)) \in {1, 3}
    /\ \E j \in 1..(Len(local_lut_return_value) - 1) : local_lut_return_value[j].size # 0

\* Claim C10 as stated: in the LUT returned, every entry's offset is strictly
\* greater than the offset of the entry before it.
C10_OffsetsAscend ==
    (lut_pc = "done") =>
        \A j \in 1..(Len(local_lut_return_value) - 1) :
            local_lut_return_value[j + 1].offset > local_lut_return_value[j].offset

-----------------------------------------------------------------------------
(* Properties of the table loader *)

\* the bit lengths of the keys of a table
KeyLengths(table) == {Len(k) : k \in DOMAIN table}

\* Claim C11 as stated: whatever lines were loaded, the key of every entry of the
\* table has as many bits as the entry's rank (depth) field says.
C11_KeyLengthIsRank ==
    \A k \in DOMAIN huffman_table : Len(k) = huffman_table[k].huffman_code_rank

\* Claim C12 as stated: while the table is not empty, shortest_huffman_code_in_bits
\* is the smallest and longest_huffman_code_in_bits the largest bit length of the
\* keys in the table; a clear puts both back at their initial values.
C12_MinMaxAreKeyLengths ==
    /\ (DOMAIN huffman_table # {}) =>
          /\ shortest_huffman_code_in_bits \in KeyLengths(huffman_table)
          /\ longest_huffman_code_in_bits \in KeyLengths(huffman_table)
          /\ \A n \in KeyLengths(huffman_table) :
                shortest_huffman_code_in_bits <= n /\ n <= longest_huffman_code_in_bits
    /\ (line_outcome = "cleared") =>
          /\ huffman_table = <<>>
          /\ longest_huffman_code_in_bits = 0
          /\ shortest_huffman_code_in_bits = sys_maxsize

\* the line does not give a table row: a column is missing or is no number, or no
\* entry can be built of its columns
IsNoTableRow(chars) ==
    ~ParseLine(chars).ok \/ ~EntryConstructs(ParseLine(chars))

\* Claim C13 as stated: a call of the loader on a line that gives no table row
\* leaves the table and the two counters as they were and returns to its caller
\* without an exception.
C13_BadLineIsSkipped ==
    [][ (table_calls' = table_calls + 1 /\ line_outcome' # "cleared" /\ IsNoTableRow(line'))
        => ( /\ huffman_table' = huffman_table
             /\ longest_huffman_code_in_bits' = longest_huffman_code_in_bits
             /\ shortest_huffman_code_in_bits' = shortest_huffman_code_in_bits
             /\ line_outcome' = "returned" ) ]_vars

-----------------------------------------------------------------------------
(* Properties of the image scanner *)

\* the offsets of the byte-aligned occurrences of '$FPT' in the image
MagicOffsets ==
    {p \in 0..(Len(scan_data) - 4) : SubSeq(scan_data, p + 1, p + 4) = FPT_MAGIC}

\* the offsets the calls reported, in the order of the calls
ReportedOffsets == [i \in 1..Len(found_positions) |-> found_positions[i][1]]

\* Claim C14 as stated: the calls report offsets in strictly increasing order, each
\* an occurrence of '$FPT'; the iteration ends, with a call that returns None and
\* not with an exception; and when it has ended every occurrence was reported
\* (exactly once, as the order is strict).
C14_ScanReportsEveryFpt ==
    /\ \A i \in 1..Len(found_positions) : ReportedOffsets[i] \in MagicOffsets
    /\ \A i \in 1..(Len(found_positions) - 1) : ReportedOffsets[i] < ReportedOffsets[i + 1]
    /\ scan_pc # "raised"
    /\ (scan_pc = "done") =>
          MagicOffsets = {ReportedOffsets[i] : i \in 1..Len(found_positions)}

-----------------------------------------------------------------------------
(* Properties of the partition-table reader *)

\* the 4 bytes at the FPT offset
MarkerBytes == SubSeq(fpt_file, offset_of_fpt + 1, offset_of_fpt + 4)

\* num_entries of the header, and the 32 bytes of the i-th entry (from 1)
NumEntries == U32LE(fpt_file, offset_of_fpt + 4)

FptEntry(i) == SubSeq(fpt_file, offset_of_fpt + 32 * i + 1, offset_of_fpt + 32 * i + 32)

\* the entry's flags, the u32 at its byte 28, as the four bytes it is made of
\* (least significant first)
FlagsOf(e) == SubSeq(e, 29, 32)

\* flags & 0x7F is 0 and the top byte of the flags is not 0xFF
Qualifies(e) == FlagsOf(e)[1] % 128 = 0 /\ FlagsOf(e)[4] # 255

\* the indexes among i..n of the entries that qualify, in order
RECURSIVE QualifyingFrom(_, _)
QualifyingFrom(i, n) ==
    IF i > n THEN <<>>
    ELSE (IF Qualifies(FptEntry(i)) THEN <<i>> ELSE <<>>) \o QualifyingFrom(i + 1, n)

\* a name without any whitespace or NUL at either end
Trimmed(str) == Strip(str, StrWhitespace \cup {0})

\* Claim C15: on a file that holds '$FPT', num_entries and that many entries at the
\* FPT offset, the reader returns None when no entry qualifies, and otherwise the
\* list with one descriptor for each qualifying entry, in the order of the entries,
\* with that entry's offset (u32 at byte 8), size (u32 at byte 12) and name (bytes
\* 0..3, up to trimming).
C15_OneDescriptorPerCodeEntry ==
    (fpt_pc # "call" /\ MarkerBytes = FPT_MAGIC) =>
        LET q == QualifyingFrom(1, NumEntries)
        IN  /\ fpt_pc = "done"
            /\ code_partitions.is_none = (q = <<>>)
            /\ Len(code_partitions.list) = Len(q)
            /\ \A j \in 1..Len(q) :
                  LET e == FptEntry(q[j])
                      d == code_partitions.list[j]
                  IN  /\ d.offset_of_cdt_header
                           = e[9] + 256 * e[10] + 65536 * e[11] + 16777216 * e[12]
                      /\ d.size = e[13] + 256 * e[14] + 65536 * e[15] + 16777216 * e[16]
                      /\ Trimmed(d.name) = Trimmed(SubSeq(e, 1, 4))

\* a list was returned from a table in which an entry that does not qualify stands
\* before one that does, and one with bit 7 of the flags set qualifies
C15_Witness ==
    /\ fpt_pc = "done"
    /\ MarkerBytes = FPT_MAGIC
    /\ ~code_partitions.is_none
    /\ \E i \in 1..NumEntries : \E k \in 1..NumEntries :
          /\ i < k
          /\ ~Qualifies(FptEntry(i))
          /\ Qualifies(FptEntry(k))
          /\ FlagsOf(FptEntry(k))[1] = 128

\* Claim C16 as stated: whatever 4 bytes other than '$FPT' stand at the FPT offset,
\* the call returns, and returns None.
C16_BadMarkerGivesNone ==
    (fpt_pc # "call" /\ MarkerBytes # FPT_MAGIC) =>
        (fpt_pc = "done" /\ code_partitions = None)

-----------------------------------------------------------------------------
(* Properties of the code-directory readers (under SpecCpd) *)

\* the start of the CPD header, the header_length it states (its byte 10), its
\* num_entries, and the 24 bytes that stand where the i-th entry (from 1) does when
\* the entries begin header_length bytes after the start of the header
CpdStart == code_partition_desc.offset_of_cdt_header

HeaderLength == cpd_file[CpdStart + 11]

NumCodeObjects == U32LE(cpd_file, CpdStart + 4)

CpdEntry(i) ==
    SubSeq(cpd_file, CpdStart + HeaderLength + 24 * (i - 1) + 1,
                     CpdStart + HeaderLength + 24 * i)

Bit(b) == IF b THEN 1 ELSE 0

\* Claim C17: every list the code-directory reader returns has one object for each
\* of the num_entries entries, in order, decoded from the 24 bytes that stand
\* header_length bytes after the start of the CPD header: the relative offset is
\* the low 25 bits and the Huffman flag bit 25 of the little-endian u32 at byte 12
\* (so that offset, flag and the six bits above them make up that u32, and the six
\* bits go nowhere), and the size is the u32 at byte 16.
C17_EntryFieldsDecoded ==
    (cpd_pc \in {"listed", "done"} /\ ~code_objects.is_none) =>
        /\ Len(code_objects.list) = NumCodeObjects
        /\ \A i \in 1..Len(code_objects.list) :
              LET e == CpdEntry(i)
                  o == code_objects.list[i]
              IN  /\ Len(e) = 24
                  /\ o.rel_offset_of_data_in_partition \in 0..(33554432 - 1)
                  /\ o.rel_offset_of_data_in_partition % 16777216
                        = e[13] + 256 * e[14] + 65536 * e[15]
                  /\ (o.rel_offset_of_data_in_partition \div 16777216)
                        + 2 * Bit(o.is_huffman_compressed) + 4 * (e[16] \div 4) = e[16]
                  /\ o.size = e[17] + 256 * e[18] + 65536 * e[19] + 16777216 * e[20]

\* a list was returned from a directory with a 20-byte header that does not start
\* the file, with an entry whose bits 26..31 are set and one whose bit 24 is set
C17_Witness ==
    /\ cpd_pc = "listed"
    /\ ~code_objects.is_none
    /\ CpdStart > 0
    /\ HeaderLength = 20
    /\ \E i \in 1..NumCodeObjects : \E k \in 1..NumCodeObjects :
          /\ CpdEntry(i)[16] \div 4 > 0
          /\ code_objects.list[i].is_huffman_compressed
          /\ CpdEntry(k)[16] % 2 = 1
          /\ ~code_objects.list[k].is_huffman_compressed

\* the elements of list that are Huffman compressed, in their order
RECURSIVE HuffmanOnes(_)
HuffmanOnes(list) ==
    IF list = <<>> THEN <<>>
    ELSE (IF Head(list).is_huffman_compressed THEN <<Head(list)>> ELSE <<>>)
             \o HuffmanOnes(Tail(list))

\* Claim C18: for a partition with at least one code object, the Huffman-only
\* listing is the full listing without the entries that are not Huffman compressed,
\* the others in their original order (the empty list when none is left).
C18_HuffmanListingIsFiltered ==
    (cpd_pc = "done" /\ ~code_objects.is_none) =>
        /\ ~huffman_code_objects.is_none
        /\ huffman_code_objects.list = HuffmanOnes(code_objects.list)

\* the Huffman-only listing of a partition whose two objects are both not Huffman
\* compressed was taken
C18_Witness ==
    /\ cpd_pc = "done"
    /\ ~code_objects.is_none
    /\ Len(code_objects.list) = 2
    /\ \A i \in 1..2 : ~code_objects.list[i].is_huffman_compressed
    /\ huffman_code_objects.list = <<>>

-----------------------------------------------------------------------------
(* Properties of the driver (under SpecDriver) *)

\* the Huffman-compressed code objects of the p-th partition listed (from 0), as
\* the driver lists them
ObjectsOf(p) == GetHuffmanCodeObjects(inp_data, code_partition_descriptors[p + 1]).value.list

\* the code objects the loops have been through, <<p, o>> for object o of partition
\* p (both from 0), those skipped by name left out
Processed ==
    IF drv_pc \notin {"partition", "object", "page", "decoding", "close", "returned"}
       \/ code_partition_descriptors = <<>>
    THEN {}
    ELSE { po \in UNION { {<<p, o>> : o \in 0..(Len(ObjectsOf(p)) - 1)} :
                          p \in 0..Min(partition_index, Len(code_partition_descriptors) - 1) } :
             /\ \/ po[1] < partition_index
                \/ drv_pc \in {"object", "page", "decoding", "close"} /\ po[2] < object_index
             /\ ~SkippedByName(extract_only_objects_named, ObjectsOf(po[1])[po[2] + 1].name) }

Before(a, b) == a[1] < b[1] \/ (a[1] = b[1] /\ a[2] < b[2])

\* the page decoder was called for object po
WasDecoded(po) ==
    \E j \in 1..Len(page_log) : page_log[j].partition = po[1] /\ page_log[j].object = po[2]

\* a symlink from the output path of object po to an output was asked for
WasAliased(po) ==
    \E j \in 1..Len(aliases) :
        aliases[j][1] = OutputPath(code_partition_descriptors[po[1] + 1],
                                   ObjectsOf(po[1])[po[2] + 1])

\* Claim C19 as stated: of two code objects of one run with the same absolute
\* starting offset (partition offset + relative offset), in one partition or in
\* two, the page decoder is run for one only, and the one that comes later is
\* recorded as an alias.
C19_SharedStartDecodedOnce ==
    \A a \in Processed : \A b \in Processed :
        (Before(a, b)
           /\ LutStartOf(ObjectsOf(a[1])[a[2] + 1]) = LutStartOf(ObjectsOf(b[1])[b[2] + 1]))
        => (~WasDecoded(b) /\ WasAliased(b))

\* no page of an object is decoded after a page of it gave a negative result
NoPageAfterAbort ==
    \A j \in 1..Len(page_log) : \A k \in 1..Len(page_log) :
        (j < k /\ page_log[j].result < 0)
        => <<page_log[k].partition, page_log[k].object>>
              # <<page_log[j].partition, page_log[j].object>>

\* Claim C20: when the page decoder returns a negative value, the driver leaves the
\* loop over the pages of the code object (no further page of it is decoded), closes
\* the output with the bytes written so far in it, and stands at the next code
\* object of the same list.
C20_NegativePageAbortsObjectOnly ==
    [][ /\ (drv_pc = "decoding" /\ pc = "done" /\ result < 0)
            => (drv_pc' = "close" /\ outp' = outp /\ object_index' = object_index)
        /\ (drv_pc = "close")
            => LET path == OutputPath(code_partition_descriptors[partition_index + 1],
                                      code_object_entries[object_index + 1])
               IN  /\ drv_pc' = "object"
                   /\ object_index' = object_index + 1
                   /\ partition_index' = partition_index
                   /\ code_object_entries' = code_object_entries
                   /\ HasKey(output_files', path)
                   /\ ValueAt(output_files', path) = outp
                   /\ page_log' = page_log
        /\ NoPageAfterAbort' ]_vars

\* the second of three pages of a code object gave a negative result after bytes
\* had been written to the output, the output file holds those bytes, and a page of
\* the next code object was decoded after it
C20_Witness ==
    \E j \in 1..Len(page_log) : \E k \in 1..Len(page_log) :
        /\ j < k
        /\ page_log[j].result < 0
        /\ page_log[j].page = 1
        /\ page_log[j].written # <<>>
        /\ page_log[k].partition = page_log[j].partition
        /\ page_log[k].object = page_log[j].object + 1
        /\ LET path == OutputPath(code_partition_descriptors[page_log[j].partition + 1],
                                  ObjectsOf(page_log[j].partition)[page_log[j].object + 1])
           IN  HasKey(output_files, path) /\ ValueAt(output_files, path) = page_log[j].written

\* the listing of the partition the driver stands at
ListingHere ==
    GetHuffmanCodeObjects(inp_data, code_partition_descriptors[partition_index + 1])

\* Claim C21 as stated: a code partition that yields no code objects is the only one
\* abandoned, so the driver returns only when no code partition is left after the
\* one it stands at.
C21_LaterPartitionsProcessed ==
    (drv_pc = "returned" /\ code_partition_descriptors # <<>>)
        => partition_index + 1 >= Len(code_partition_descriptors)

\* Claim C21 as amended: when the listing of a code partition is None (its
\* directory states no code objects), the driver returns at once; it stays at that
\* partition, and opens no output, decodes no page and asks for no symlink after it.
C21_NoObjectsEndsRun ==
    [][ (drv_pc = "partition"
            /\ partition_index < Len(code_partition_descriptors)
            /\ ListingHere.outcome = "returned" /\ ListingHere.value.is_none)
        => /\ drv_pc' = "returned"
           /\ partition_index' = partition_index
           /\ <<output_files, aliases, page_log>>' = <<output_files, aliases, page_log>> ]_vars

\* the run returned at the first of two code partitions, whose directory states no
\* code objects, and nothing was decoded
C21_Witness ==
    /\ drv_pc = "returned"
    /\ Len(code_partition_descriptors) = 2
    /\ partition_index = 0
    /\ ListingHere.value.is_none
    /\ ~GetHuffmanCodeObjects(inp_data, code_partition_descriptors[2]).value.is_none
    /\ page_log = <<>>

\* the position immediately after the LUT of the code object the driver stands at:
\* where the LUT starts, and 4 bytes on for each page of the object's size
BaseHere ==
    LET entry == code_object_entries[object_index + 1]
    IN  LutStartOf(entry) + 4 * (entry.size \div HUFFMAN_PAGE_DECODED_SIZE_MAX)

\* Claim C22: a page decode the driver makes starts with the input cursor at the
\* base of the code object (immediately after its LUT), whatever page came before,
\* and from then on the cursor is at base + compressed_offset + the number of bytes
\* read: the page is read from base + compressed_offset on.
C22_CursorResetPerPage ==
    (drv_pc = "decoding") =>
        /\ code_object_position_start = BaseHere
        /\ IF pc = "start"
           THEN inp_pos = BaseHere
           ELSE inp_pos = BaseHere + lut_entry_for_page.offset + read_position

\* the second page of a code object is being decoded, from an offset above 0, after
\* the first page's decode had read bytes
C22_Witness ==
    /\ drv_pc = "decoding"
    /\ page_index = 1
    /\ pc = "main"
    /\ read_position > 0
    /\ lut_entry_for_page.offset > 0
    /\ page_log # <<>>
    /\ page_log[Len(page_log)].object = object_index
    /\ page_log[Len(page_log)].result > 0

-----------------------------------------------------------------------------
(* Properties of the readers on input that ends early (under SpecCut) *)

\* Claim C23 as stated: when the input ends before the FPT header and its entry,
\* the CPD header and its entry, or the LUT words to read are complete, the reader
\* returns, raises no exception, and the FPT and directory readers return None.
C23_EarlyEndGivesNone ==
    /\ (fpt_pc \in {"done", "raised"} /\ Len(fpt_file) < Len(FullFpt))
          => (fpt_pc = "done" /\ code_partitions = None)
    /\ (cpd_pc \in {"listed", "done", "raised"} /\ Len(cpd_file) < Len(FullCpd))
          => (cpd_pc # "raised" /\ code_objects = None)
    /\ (Len(lut_inp_data) < bytes_of_lut_to_read) => lut_pc # "raised"


(* Properties of the names the readers return (under SpecCpd) *)

\* Claim C27 as stated: every code-object name the directory reader returns has no
\* leading or trailing whitespace character and no leading or trailing NUL
\* character, whatever the raw name bytes of the entry are.
C27_NamesAreTrimmed ==
    (cpd_pc \in {"listed", "done"} /\ ~code_objects.is_none) =>
        \A j \in 1..Len(code_objects.list) :
            LET name == code_objects.list[j].name
            IN  name # <<>> =>
                   /\ Head(name) \notin StrWhitespace \cup {0}
                   /\ name[Len(name)] \notin StrWhitespace \cup {0}

(* Properties of the two dictionaries (under SpecSelectors) *)

\* the byte strings that dict1 (second = FALSE) or dict2 (second = TRUE) holds for
\* the codes cs, one after the other
RECURSIVE DictStrings(_, _, _)
DictStrings(table, cs, second) ==
    IF cs = <<>> THEN <<>>
    ELSE LET entry == table[BitsOfCode(Head(cs))]
         IN  RunCat(IF second THEN entry.dict2_value ELSE entry.dict1_value,
                    DictStrings(table, Tail(cs), second))

\* Claim C28: with the same codebook, input bytes, compressed_offset and page_size,
\* the call with dictionary selector 0 and the call with selector 1 match the same
\* sequence of codes, read the same number of input bytes and return the same value;
\* the bytes written by the call with selector 0 are the dict1 strings of those
\* codes and the bytes written by the call with selector 1 their dict2 strings.
C28_SelectorOnlyChangesBytes ==
    (pc = "done" /\ call = 2) =>
        /\ matched = first_matched
        /\ read_position = first_read_position
        /\ result = first_result
        /\ outp = DictStrings(huffman_table, matched,
                              lut_entry_for_page.dictionary_selector = 1)
        /\ first_outp = DictStrings(huffman_table, first_matched,
                                    lut_entry_for_page.dictionary_selector # 1)

\* both calls returned after matching several codes, and wrote different bytes
C28_Witness ==
    /\ pc = "done"
    /\ call = 2
    /\ Len(matched) >= 2
    /\ result > 0
    /\ outp # first_outp

(* What a page decode leaves alone (under Spec) *)

\* Claim C29: a step of a page decode leaves the compressed_offset and the
\* dictionary_selector of its LUT entry as they are, changes the entry's size only
\* from 0 to 4096, and leaves the codebook (the table and its longest and shortest
\* code lengths) as it is.
C29_DecodeLeavesEntryAndCodebook ==
    [][ (call > 0 /\ pc # "done") =>
           /\ lut_entry_for_page'.offset = lut_entry_for_page.offset
           /\ lut_entry_for_page'.dictionary_selector = lut_entry_for_page.dictionary_selector
           /\ \/ lut_entry_for_page'.size = lut_entry_for_page.size
              \/ /\ lut_entry_for_page.size = 0
                 /\ lut_entry_for_page'.size = HUFFMAN_PAGE_DECODED_SIZE_MAX
           /\ huffman_table' = huffman_table
           /\ longest_huffman_code_in_bits' = longest_huffman_code_in_bits
           /\ shortest_huffman_code_in_bits' = shortest_huffman_code_in_bits ]_vars

\* a page whose LUT entry had size 0 was decoded with selector 1 from an offset
\* above 0, and bytes were written
C29_Witness ==
    /\ pc = "done"
    /\ call = 1
    /\ lut_entry_for_page.size = HUFFMAN_PAGE_DECODED_SIZE_MAX
    /\ lut_entry_for_page.offset > 0
    /\ lut_entry_for_page.dictionary_selector = 1
    /\ huffman_table # <<>>
    /\ result > 0

(* Properties of the driver's output write position (under SpecDriver) *)

RECURSIVE ReturnedSoFar(_, _, _)
\* the sum of the results that the pages of one code object returned, over the
\* first n entries of the log
ReturnedSoFar(log, n, object) ==
    IF n = 0 THEN 0
    ELSE ReturnedSoFar(log, n - 1, object)
         + (IF <<log[n].partition, log[n].object>> = object /\ log[n].result >= 0
            THEN log[n].result ELSE 0)

\* Claim C26: while the driver decodes a code object, output_write_position is the
\* sum of the results its pages returned so far; the page being decoded writes from
\* there on (its bytes start where the previous page's ended, and the output holds
\* exactly that many bytes between two pages); and a step within the code object
\* never decreases output_write_position.
C26_WritePositionIsSumOfPages ==
    /\ [](drv_pc \in {"page", "decoding"} =>
            /\ output_write_position
                  = ReturnedSoFar(page_log, Len(page_log), <<partition_index, object_index>>)
            /\ drv_pc = "page" => RunLen(outp) = output_write_position
            /\ drv_pc = "decoding" =>
                  /\ offset_into_output = output_write_position
                  /\ pc # "start" => outp_pos = output_write_position + write_position)
    /\ [][(drv_pc \in {"page", "decoding"} /\ drv_pc' \in {"page", "decoding", "close"})
            => output_write_position' >= output_write_position]_vars

\* the second page of a code object has written bytes after the bytes of the first
C26_Witness ==
    /\ drv_pc = "decoding"
    /\ page_index = 1
    /\ output_write_position > 0
    /\ write_position > 0
    /\ outp_pos = output_write_position + write_position

(* The driver with an explicit FPT location (under SpecDriver) *)

\* Claim C30 as stated: when the driver is given a file_table_location that is not
\* negative, its first step scans nothing and goes on, with that location, to the
\* listing of the code partitions by get_all_cdt.
C30_ExplicitLocationIsUsed ==
    [][ (drv_pc = "start" /\ file_table_location >= 0) =>
           /\ drv_pc' = "cdt"
           /\ file_table_location' = file_table_location ]_vars

\* ------------------------------------------------------------------------
\* Properties of the page decoder's reads (lines 376-381, 422-493)

\* Claim C24 as stated: every byte the page decoder reads from the input, in the
\* initial read and in each refill, is appended to the bitbuffer (and so offered
\* to a match step) before the call returns, unless the call returned because the
\* output reached the page limit: a call that returned otherwise holds no bytes
\* that were read and not appended.
C24_ReadBytesReachBitbuffer ==
    (pc = "done" /\ call = 1 /\ ~PageLimitReached(write_position)) => in_data = <<>>


\* Claim C25 as stated: at every match step of the main loop (bytes of the page
\* remain to be read and the page limit is not reached), the bitbuffer holds at
\* least shortest_huffman_code_in_bits valid bits, provided the input holds every
\* byte up to the declared end of the page (compressed_offset + page_size). The
\* codebook holds at least one code.
C25_MatchStepHasMinBits ==
    ( /\ pc = "main_match"
      /\ call = 1
      /\ huffman_table # <<>>
      /\ lut_entry_for_page.offset + lut_entry_for_page.size <= Len(inp_data) )
    => valid_bits_in_bitbuffer >= shortest_huffman_code_in_bits

====
